---- MODULE Spec2Model ----
(***************************************************************************)
(* A model of the UESMANN C++ library: the example store (data.hpp), the   *)
(* network parameter block and its serialisation (bpnet.hpp, obnet.hpp,    *)
(* hinet.hpp, netFactory.hpp), the SGD driver (net.hpp), the forward pass  *)
(* and back-propagation of the plain and the modulated network             *)
(* (bpnet.hpp, uesnet.hpp), output blending (obnet.hpp), the factory, the  *)
(* mean squared error of Net::test and the seeded order of presentation.   *)
(*                                                                         *)
(* Doubles are modelled by integers: an example's inputs and outputs by a  *)
(* tag that identifies the example, the modulator h by an integer level,   *)
(* a weight or bias by an integer identifying the value stored.            *)
(* Where the arithmetic matters (forward pass, back-propagation, test) a   *)
(* value is the integer itself, 1.0 is One, and the sigmoid is a ramp onto *)
(* 0..One that is Half at 0.                                               *)
(***************************************************************************)
EXTENDS Integers, Sequences, FiniteSets, TLC

(***************************************************************************)
(* Bounds of the model.                                                    *)
(***************************************************************************)
MaxCt == 4          \* largest example count in the shuffle specification
MaxLevels == 2      \* largest numHLevels
MaxHVal == 2        \* largest modulator value stored in an example / maxH
MaxViewCt == 3      \* largest example count in the sub-view specification
MaxLayers == 3      \* largest number of layers of a network
MaxSize == 2        \* largest layer size given to a constructor
MaxSeed == 1        \* largest PRNG seed
MaxExamples == 2    \* largest example count given to trainSGD
MaxIter == 2        \* largest SGDParams.iterations
MaxErr == 1         \* largest error value returned by trainBatch and test
MaxSlices == 1      \* largest SGDParams.nSlices
MaxPerSlice == 1    \* largest SGDParams.nPerSlice
MaxInterval == 2    \* largest SGDParams.cvInterval
\* MaxTrain, Half, MaxHidden and the sizes of the test set are defined with
\* the specifications that use them.

(***************************************************************************)
(* C integer arithmetic: / truncates toward zero, % takes the sign of the  *)
(* dividend.                                                               *)
(***************************************************************************)
Abs(x) == IF x < 0 THEN -x ELSE x

CDiv(a, b) ==
    LET q == Abs(a) \div Abs(b)
    IN  IF (a < 0) # (b < 0) THEN -q ELSE q

CMod(a, b) == a - b * CDiv(a, b)

VARIABLES
    data,       \* the block of example data: data[p] is the example stored at place p
    parent,     \* an ExampleSet that owns data
    child,      \* an ExampleSet built as a subset of parent, or NoSet
    lastOp,     \* the last operation performed and its arguments
    net,        \* a network (its type tag and parameter buffers), or NoNet
    fresh,      \* a second network of the same variant and layer sizes, or NoNet
    buf,        \* the block written by net's save, or NoBuf
    buf2,       \* the block written by fresh's save, or NoBuf
    file,       \* the words of the file written by saveNet, or NoBuf
    loaded,     \* the outcome of loadNet, or NoNet
    params,     \* the SGDParams object last given to trainSGD, or NoParams
    sgd         \* the locals of the running or last call of trainSGD

dataVars == <<data, parent, child, lastOp>>
netVars == <<net, fresh, buf, buf2, file, loaded>>
sgdVars == <<params, sgd>>
vars == <<data, parent, child, lastOp, net, fresh, buf, buf2, file, loaded, params, sgd>>

NoSet == [ct |-> -1]
NoNet == [type |-> -1]
NoBuf == <<-1>>
NoParams == [iterations |-> -1]
NoSGD == [pc |-> "none"]

\* no network exists: the state of the network variables in the data specifications
NetIdle ==
    /\ net = NoNet
    /\ fresh = NoNet
    /\ buf = NoBuf
    /\ buf2 = NoBuf
    /\ file = NoBuf
    /\ loaded = NoNet
    /\ params = NoParams
    /\ sgd = NoSGD

(***************************************************************************)
(* ExampleSet (data.hpp).  A handle (a pointer to an example) is the place *)
(* 1..n of that example in data; examples is the array of handles.         *)
(* Logical indices are 0-based as in the code; the sequence is 1-based.    *)
(***************************************************************************)
ExampleSet(n, levels) ==
    [examples |-> [i \in 1..n |-> i],
     ct |-> n,
     numHLevels |-> levels,
     minH |-> 0,
     maxH |-> 1,
     ownsData |-> TRUE]

\* The check at the head of the subset constructor.
SubsetOutOfRangeOffByOne(p, start, length) ==
    length >= p.ct - start \/ start < 0 \/ length < 1

SubsetOutOfRange(p, start, length) ==
    length > p.ct - start \/ start < 0 \/ length < 1

SubsetCopyAll(p, start, length) ==
    [examples |-> [i \in 1..length |-> p.examples[i]],
     ct |-> length,
     numHLevels |-> p.numHLevels,
     minH |-> p.minH,
     maxH |-> p.maxH,
     ownsData |-> FALSE]

\* ExampleSet(const ExampleSet &parent,int start,int length), past the check.
Subset(p, start, length) ==
    [examples |-> [i \in 1..length |-> p.examples[start + i]],
     ct |-> length,
     numHLevels |-> p.numHLevels,
     minH |-> p.minH,
     maxH |-> p.maxH,
     ownsData |-> FALSE]

getInputs(d, s, example) == d[s.examples[example + 1]].ins
getOutputs(d, s, example) == d[s.examples[example + 1]].outs
getH(d, s, example) == d[s.examples[example + 1]].h

setHByPosition(d, s, example, h) == [d EXCEPT ![example + 1].h = h]

\* setH: *(examples[example] + hOffset) = h
setH(d, s, example, h) == [d EXCEPT ![s.examples[example + 1]].h = h]

\* a store through the pointer that getInputs / getOutputs returns
writeInputs(d, s, example, v) == [d EXCEPT ![s.examples[example + 1]].ins = v]
writeOutputs(d, s, example, v) == [d EXCEPT ![s.examples[example + 1]].outs = v]

setHRange(s, mn, mx) == [s EXCEPT !.minH = mn, !.maxH = mx]

(***************************************************************************)
(* shuffle: the lambda that gives an example's modulator bucket,           *)
(*   d = (e[hOffset]-minH)/(maxH-minH);  i = (int)(d*(numHLevels-1)).      *)
(***************************************************************************)
bucket(d, s, e) ==
    CDiv((d[e].h - s.minH) * (s.numHLevels - 1), s.maxH - s.minH)

(***************************************************************************)
(* alternate(arr, nitems, cycle, f): f is given as a function on the       *)
(* elements of arr.  Positions are 0-based.                                *)
(***************************************************************************)
RECURSIVE altScan(_, _, _, _, _, _)
altScanNoTest(arr, j, i, nitems, cycle, f) == IF j >= nitems THEN -1 ELSE j

\* the inner loop: the first j >= from with f(arr[j])%cycle == i%cycle, or -1
altScan(arr, j, i, nitems, cycle, f) ==
    IF j >= nitems THEN -1
    ELSE IF CMod(f[arr[j + 1]], cycle) = i % cycle THEN j
    ELSE altScan(arr, j + 1, i, nitems, cycle, f)

swap(arr, i, j) ==
    [arr EXCEPT ![i + 1] = arr[j + 1], ![j + 1] = arr[i + 1]]

RECURSIVE altLoop(_, _, _, _, _)
altLoopSkip(arr, i, nitems, cycle, f) ==
    IF i >= nitems THEN arr
    ELSE IF CMod(f[arr[i + 1]], cycle) # i % cycle
         THEN arr
         ELSE altLoop(arr, i + 1, nitems, cycle, f)

altLoop(arr, i, nitems, cycle, f) ==
    IF i >= nitems THEN arr
    ELSE IF CMod(f[arr[i + 1]], cycle) # i % cycle
         THEN LET j == altScan(arr, i, i, nitems, cycle, f)
              IN  IF j < 0 THEN arr
                  ELSE altLoop(swap(arr, i, j), i + 1, nitems, cycle, f)
         ELSE altLoop(arr, i + 1, nitems, cycle, f)

alternate(arr, nitems, cycle, f) == altLoop(arr, 0, nitems, cycle, f)

(***************************************************************************)
(* The Fisher-Yates pass of shuffle over blocks of blockSize handles.      *)
(* draws[i] is the value of lr%(i+1) at loop index i, any of 0..i.         *)
(***************************************************************************)
Draws(nblocks) ==
    {dr \in [1..(nblocks - 1) -> 0..(nblocks - 1)] :
        \A i \in 1..(nblocks - 1) : dr[i] <= i}

InBlock(p, b, blockSize) == p > b * blockSize /\ p <= b * blockSize + blockSize

swapBlocksNoTmp(arr, i, j, blockSize) ==
    [p \in 1..Len(arr) |->
        IF InBlock(p, i, blockSize) THEN arr[p - i * blockSize + j * blockSize]
        ELSE arr[p]]

\* the three memcpy calls: tmp = block i; block i = block j; block j = tmp
swapBlocks(arr, i, j, blockSize) ==
    [p \in 1..Len(arr) |->
        IF InBlock(p, i, blockSize) THEN arr[p - i * blockSize + j * blockSize]
        ELSE IF InBlock(p, j, blockSize) THEN arr[p - j * blockSize + i * blockSize]
        ELSE arr[p]]

RECURSIVE fisherYates(_, _, _, _)
fisherYates(arr, i, blockSize, draws) ==
    IF i < 1 THEN arr
    ELSE fisherYates(swapBlocks(arr, i, draws[i], blockSize), i - 1, blockSize, draws)

blockSizeOne(s, mode) == 1

blockSizeOf(s, mode) == IF mode = "STRIDE" THEN s.numHLevels ELSE 1

numBlocks(s, mode) == CDiv(s.ct, blockSizeOf(s, mode))

\* void shuffle(drand48_data *rd,ShuffleMode mode)
shuffle(d, s, mode, draws) ==
    LET blockSize == blockSizeOf(s, mode)
        shuffled == fisherYates(s.examples, CDiv(s.ct, blockSize) - 1, blockSize, draws)
        f == [e \in 1..Len(d) |-> bucket(d, s, e)]
    IN  [s EXCEPT !.examples =
            IF mode = "ALTERNATE"
            THEN alternate(shuffled, s.ct, s.numHLevels, f)
            ELSE shuffled]

ShuffleModes == {"STRIDE", "ALTERNATE", "NONE"}

(***************************************************************************)
(* Networks.  NetType (netType.hpp) and the parameter buffers of BPNet     *)
(* (bpnet.hpp).  Layers, nodes and buffer cells are 0-based as in the      *)
(* code; sequences are 1-based.  A cell that the code allocates with new   *)
(* and does not write holds an indeterminate value: the constructors take  *)
(* that value as the argument junk.                                        *)
(***************************************************************************)
PLAIN == 1000
OUTPUTBLENDING == 1001
HINPUT == 1002
UESMANN == 1003
NetTypes == {PLAIN, OUTPUTBLENDING, HINPUT, UESMANN}

\* what a caller holds when a function that must return a Net* returns none
Garbage == [type |-> -2]

\* indeterminate values of cells allocated and not yet written
JunkVals == {-3, -4}

\* BPNet::init(nlayers, layerCounts)
init(nlayers, layerCounts, junk) ==
    LET largest == CHOOSE m \in {0} \cup {layerCounts[i] : i \in 1..nlayers} :
                       \A i \in 1..nlayers : layerCounts[i] <= m
    IN [numLayers |-> nlayers,
        layerSizes |-> [i \in 1..nlayers |-> layerCounts[i]],
        largestLayerSize |-> largest,
        biases |-> [i \in 1..nlayers |-> [j \in 1..layerCounts[i] |-> junk]],
        weights |-> [i \in 1..nlayers |-> [c \in 1..(largest * largest) |-> junk]]]

\* the place in weights[tolayer] that getw(tolayer,toneuron,fromneuron) refers to
getwPlace(bp, toneuron, fromneuron) == toneuron + bp.largestLayerSize * fromneuron + 1

getw(bp, tolayer, toneuron, fromneuron) ==
    bp.weights[tolayer + 1][getwPlace(bp, toneuron, fromneuron)]

RECURSIVE dataSizeLoop(_, _, _)
dataSizeLoopSkipInput(bp, i, pc) ==
    IF i >= bp.numLayers THEN 0
    ELSE LET c == bp.layerSizes[i + 1]
         IN (IF i > 0 THEN c * (1 + pc) ELSE 0) + dataSizeLoop(bp, i + 1, c)

\* the loop of BPNet::getDataSize from layer i on, pc the previous layer's size
dataSizeLoop(bp, i, pc) ==
    IF i >= bp.numLayers THEN 0
    ELSE LET c == bp.layerSizes[i + 1] IN c * (1 + pc) + dataSizeLoop(bp, i + 1, c)

BPNet_getDataSize(bp) == dataSizeLoop(bp, 0, 0)

\* the indeterminate content of a cell of a buffer from new double[n]
Unwritten == -2

\* a buffer of n doubles from new double[n]
Alloc(n) == [p \in 1..n |-> Unwritten]

\* the effect on buffer b of writing vals through a pointer that starts at b+off
WriteAt(b, off, vals) ==
    LET hi == IF off + Len(vals) > Len(b) THEN off + Len(vals) ELSE Len(b)
    IN [p \in 1..hi |-> IF p > off /\ p <= off + Len(vals) THEN vals[p - off]
                        ELSE IF p <= Len(b) THEN b[p] ELSE Unwritten]

RECURSIVE saveLoop(_, _, _)
saveLoopNoInputBias(bp, i, j) ==
    IF i >= bp.numLayers THEN <<>>
    ELSE IF j >= bp.layerSizes[i + 1] THEN saveLoop(bp, i + 1, 0)
    ELSE (IF i > 0
          THEN <<bp.biases[i + 1][j + 1]>>
               \o [k \in 1..bp.layerSizes[i] |-> getw(bp, i, j, k - 1)]
          ELSE <<>>)
         \o saveLoop(bp, i, j + 1)

\* the values BPNet::save writes through *g++ from node j of layer i on
saveLoop(bp, i, j) ==
    IF i >= bp.numLayers THEN <<>>
    ELSE IF j >= bp.layerSizes[i + 1] THEN saveLoop(bp, i + 1, 0)
    ELSE <<bp.biases[i + 1][j + 1]>>
         \o (IF i > 0 THEN [k \in 1..bp.layerSizes[i] |-> getw(bp, i, j, k - 1)]
             ELSE <<>>)
         \o saveLoop(bp, i, j + 1)

BPNet_save(bp, b, off) == WriteAt(b, off, saveLoop(bp, 0, 0))

RECURSIVE loadLoop(_, _, _, _, _)
\* BPNet::load from node j of layer i on; g is the read pointer, as an offset
loadLoop(bp, b, g, i, j) ==
    IF i >= bp.numLayers THEN bp
    ELSE IF j >= bp.layerSizes[i + 1] THEN loadLoop(bp, b, g, i + 1, 0)
    ELSE LET nw == IF i > 0 THEN bp.layerSizes[i] ELSE 0
             bp1 == [bp EXCEPT !.biases[i + 1][j + 1] = b[g + 1],
                        !.weights[i + 1] = [c \in DOMAIN @ |->
                            IF \E k \in 0..(nw - 1) : c = getwPlace(bp, j, k)
                            THEN LET k == CHOOSE k \in 0..(nw - 1) : c = getwPlace(bp, j, k)
                                 IN b[g + 1 + k + 1]
                            ELSE @[c]]]
         IN loadLoop(bp1, b, g + 1 + nw, i, j + 1)

BPNet_load(bp, b, off) == loadLoop(bp, b, off, 0, 0)

(***************************************************************************)
(* initWeights.  The k-th value drawn from a PRNG seeded with seed is      *)
(* modelled by drand(seed, k): distinct draws give distinct values, none   *)
(* of them zero.  The scaling by initrange does not change which cell      *)
(* holds which draw and is left out.                                       *)
(***************************************************************************)
drand(seed, k) == 100 * (seed + 1) + k

RECURSIVE drawsBefore(_, _)
\* the number of draws BPNet::initWeights makes before it reaches layer i
drawsBefore(bp, i) ==
    IF i = 0 THEN 0
    ELSE drawsBefore(bp, i - 1) + bp.layerSizes[i]
             + bp.largestLayerSize * bp.largestLayerSize

BPNet_initWeights(bp, seed) ==
    [bp EXCEPT
        !.biases = [i \in 1..bp.numLayers |-> [j \in 1..bp.layerSizes[i] |->
            IF i = 1 THEN 0 ELSE drand(seed, drawsBefore(bp, i - 1) + j - 1)]],
        !.weights = [i \in 1..bp.numLayers |->
            [c \in 1..(bp.largestLayerSize * bp.largestLayerSize) |->
                IF i = 1 THEN 0
                ELSE drand(seed, drawsBefore(bp, i - 1) + bp.layerSizes[i] + c - 1)]]]

(***************************************************************************)
(* trainBatch: the step that ends BPNet::trainBatch subtracts eta times    *)
(* the averaged gradient from every weight getw(i,j,k) and bias of the     *)
(* layers above the input layer.  The amount is modelled by one integer d. *)
(***************************************************************************)
BPNet_trainBatchWholeBuffer(bp, d) ==
    [bp EXCEPT
        !.biases = [i \in 1..bp.numLayers |-> [j \in 1..bp.layerSizes[i] |->
            IF i = 1 THEN @[i][j] ELSE @[i][j] - d]],
        !.weights = [i \in 1..bp.numLayers |->
            [c \in 1..(bp.largestLayerSize * bp.largestLayerSize) |->
                IF i > 1 THEN @[i][c] - d ELSE @[i][c]]]]

BPNet_trainBatch(bp, d) ==
    [bp EXCEPT
        !.biases = [i \in 1..bp.numLayers |-> [j \in 1..bp.layerSizes[i] |->
            IF i = 1 THEN @[i][j] ELSE @[i][j] - d]],
        !.weights = [i \in 1..bp.numLayers |->
            [c \in 1..(bp.largestLayerSize * bp.largestLayerSize) |->
                IF i > 1 /\ \E j \in 0..(bp.layerSizes[i] - 1) :
                              \E k \in 0..(bp.layerSizes[i - 1] - 1) :
                                  c = getwPlace(bp, j, k)
                THEN @[i][c] - d ELSE @[i][c]]]]

(***************************************************************************)
(* The four variants.  A network is a record with its type tag and either  *)
(* one BPNet body (bp) or, for output blending, two sub-networks.          *)
(***************************************************************************)
BPNet(nlayers, layerCounts, junk) ==
    [type |-> PLAIN, bp |-> init(nlayers, layerCounts, junk)]

UESNet(nlayers, layerCounts, junk) ==
    [type |-> UESMANN, bp |-> init(nlayers, layerCounts, junk)]

\* ll[0]++ before init
HInputNet(layers, layerCounts, junk) ==
    [type |-> HINPUT,
     bp |-> init(layers, [i \in 1..layers |->
                    IF i = 1 THEN layerCounts[i] + 1 ELSE layerCounts[i]], junk)]

OutputBlendingNet(nlayers, layerCounts, junk) ==
    [type |-> OUTPUTBLENDING,
     net0 |-> BPNet(nlayers, layerCounts, junk),
     net1 |-> BPNet(nlayers, layerCounts, junk)]

\* makeNet(t,layercount,layers); the default case leaves the switch and the
\* function ends without a return
makeNet(t, layercount, layers, junk) ==
    CASE t = PLAIN -> BPNet(layercount, layers, junk)
      [] t = OUTPUTBLENDING -> OutputBlendingNet(layercount, layers, junk)
      [] t = HINPUT -> HInputNet(layercount, layers, junk)
      [] t = UESMANN -> UESNet(layercount, layers, junk)
      [] OTHER -> Garbage

getLayerCount(n) ==
    IF n.type = OUTPUTBLENDING THEN n.net0.bp.numLayers ELSE n.bp.numLayers

getLayerSize(n, i) ==
    CASE n.type = OUTPUTBLENDING -> n.net0.bp.layerSizes[i + 1]
      [] n.type = HINPUT ->
            LET ct == n.bp.layerSizes[1] IN IF i = 0 THEN ct - 1 ELSE ct
      [] OTHER -> n.bp.layerSizes[i + 1]

getInputCount(n) == getLayerSize(n, 0)

getOutputCount(n) == getLayerSize(n, getLayerCount(n) - 1)

getDataSize(n) ==
    IF n.type = OUTPUTBLENDING THEN BPNet_getDataSize(n.net0.bp) * 2
    ELSE BPNet_getDataSize(n.bp)

\* save(buf), buf pointing at offset off of b
save(n, b, off) ==
    IF n.type = OUTPUTBLENDING
    THEN BPNet_save(n.net1.bp, BPNet_save(n.net0.bp, b, off),
                    off + BPNet_getDataSize(n.net0.bp))
    ELSE BPNet_save(n.bp, b, off)

load(n, b, off) ==
    IF n.type = OUTPUTBLENDING
    THEN [n EXCEPT !.net0.bp = BPNet_load(@, b, off),
                   !.net1.bp = BPNet_load(@, b, off + BPNet_getDataSize(n.net0.bp))]
    ELSE [n EXCEPT !.bp = BPNet_load(@, b, off)]

\* the sub-networks draw from their own PRNG, seeded with 0 by the Net constructor
initWeights(n, seed) ==
    IF n.type = OUTPUTBLENDING
    THEN [n EXCEPT !.net0.bp = BPNet_initWeights(@, 0),
                   !.net1.bp = BPNet_initWeights(@, 0)]
    ELSE [n EXCEPT !.bp = BPNet_initWeights(@, seed)]

\* one example trained: output blending trains the sub-network the example's
\* modulator selects (which)
trainBatch(n, which, d) ==
    IF n.type = OUTPUTBLENDING
    THEN IF which = 0 THEN [n EXCEPT !.net0.bp = BPNet_trainBatch(@, d)]
         ELSE [n EXCEPT !.net1.bp = BPNet_trainBatch(@, d)]
    ELSE [n EXCEPT !.bp = BPNet_trainBatch(@, d)]

(***************************************************************************)
(* NetFactory: the file is the sequence of the words written to it.        *)
(***************************************************************************)
\* saveNet(fn,n): magic, layer count, one word per layer, the parameter block
saveNet(n) ==
    LET magic == n.type
        layercount == getLayerCount(n)
        sizeWords == [i \in 1..layercount |->
                         LET layersize == getLayerSize(n, i - 1) IN layercount]
        size == getDataSize(n)
        b == save(n, Alloc(size), 0)
    IN <<magic, layercount>> \o sizeWords \o SubSeq(b, 1, size)

\* loadNet(fn): the function ends without a return statement, so what the
\* caller receives is either the network built (ret) or anything else
loadNet(f, junk, ret) ==
    IF Len(f) < 2 \/ Len(f) < 2 + f[2]
    THEN [threw |-> "runtime_error", n |-> NoNet, returned |-> NoNet]
    ELSE LET t == f[1]
             layercount == f[2]
             layers == [i \in 1..layercount |-> f[2 + i]]
             n == makeNet(t, layercount, layers, junk)
             size == getDataSize(n)
             rest == SubSeq(f, 3 + layercount, Len(f))
         IN IF Len(rest) < size
            THEN [threw |-> "runtime_error", n |-> n, returned |-> NoNet]
            ELSE LET m == load(n, SubSeq(rest, 1, size), 0)
                 IN [threw |-> "none", n |-> m,
                     returned |-> IF ret THEN m ELSE Garbage]

(***************************************************************************)
(* The example data of a filled set: example i (1-based place) carries     *)
(* inputs and outputs that identify it, as in TestExampleSet, and a        *)
(* modulator level.                                                        *)
(***************************************************************************)
Filled(n, hs) == [i \in 1..n |-> [ins |-> i * 10, outs |-> i * 20, h |-> hs[i]]]

(***************************************************************************)
(* Specification of shuffle: one call of shuffle, in any mode and with any *)
(* draws, on a set of any size that has been built, given a modulator      *)
(* range (setHRange with a non-empty range; an empty one divides by zero   *)
(* in the bucket computation) and filled with any modulator levels.  The   *)
(* set starts in the order of construction: shuffle treats handles alike,  *)
(* so any other starting order is this one with the examples renamed.  The *)
(* levels are laid out in non-decreasing order of place (as the tests lay  *)
(* them out): the Fisher-Yates pass puts them in every other order before  *)
(* alternate runs.  Repeated shuffles are part of SpecView and SpecSGD.    *)
(***************************************************************************)
NonDecreasing(n, hs) == \A i \in 1..(n - 1) : hs[i] <= hs[i + 1]

InitShuffle ==
    \E n \in 0..MaxCt, levels \in 1..MaxLevels, mx \in 1..MaxHVal :
        \E hs \in [1..n -> 0..MaxHVal] :
            /\ NonDecreasing(n, hs)
            /\ data = Filled(n, hs)
            /\ parent = setHRange(ExampleSet(n, levels), 0, mx)
            /\ child = NoSet
            /\ lastOp = [op |-> "construct"]
            /\ NetIdle

ShuffleParent ==
    /\ lastOp.op = "construct"
    /\ \E mode \in ShuffleModes :
        \E draws \in Draws(numBlocks(parent, mode)) :
            /\ parent' = shuffle(data, parent, mode, draws)
            /\ lastOp' = [op |-> "shuffle", mode |-> mode, set |-> "parent"]
            /\ UNCHANGED <<data, child>>
            /\ UNCHANGED <<netVars, sgdVars>>

NextShuffle == ShuffleParent

SpecShuffle == InitShuffle /\ [][NextShuffle]_vars

(***************************************************************************)
(* Specification of serialisation: a network of any variant and layer      *)
(* sizes is built, its weights initialised, and possibly trained on one    *)
(* example; then its block is saved, loaded into a fresh network of the    *)
(* same variant and layer sizes and saved again, and the network is saved  *)
(* to a file and loaded from it.                                           *)
(***************************************************************************)
LayerConfigs == UNION {[1..l -> 1..MaxSize] : l \in 2..MaxLayers}

InitNet ==
    \E t \in NetTypes : \E layers \in LayerConfigs : \E junk \in JunkVals :
        \E seed \in 0..MaxSeed :
            /\ net = initWeights(makeNet(t, Len(layers), layers, junk), seed)
            /\ fresh = NoNet
            /\ buf = NoBuf
            /\ buf2 = NoBuf
            /\ file = NoBuf
            /\ loaded = NoNet
            /\ lastOp = [op |-> "makeNet", layers |-> layers, trained |-> FALSE]
            /\ data = <<>>
            /\ parent = NoSet
            /\ child = NoSet
            /\ params = NoParams
            /\ sgd = NoSGD

TrainNet ==
    /\ ~lastOp.trained
    /\ buf = NoBuf
    /\ file = NoBuf
    /\ \E which \in 0..1 : \E d \in 1..2 :
           net' = trainBatch(net, which, d)
    /\ lastOp' = [lastOp EXCEPT !.op = "trainBatch", !.trained = TRUE]
    /\ UNCHANGED <<fresh, buf, buf2, file, loaded, data, parent, child, params, sgd>>

\* double *buf = new double[net->getDataSize()]; net->save(buf)
SaveBuf ==
    /\ buf = NoBuf
    /\ buf' = save(net, Alloc(getDataSize(net)), 0)
    /\ lastOp' = [lastOp EXCEPT !.op = "save"]
    /\ UNCHANGED <<net, fresh, buf2, file, loaded, data, parent, child, params, sgd>>

LoadFresh ==
    /\ buf # NoBuf
    /\ fresh = NoNet
    /\ \E junk \in JunkVals :
           fresh' = load(makeNet(net.type, Len(lastOp.layers), lastOp.layers, junk),
                         buf, 0)
    /\ lastOp' = [lastOp EXCEPT !.op = "load"]
    /\ UNCHANGED <<net, buf, buf2, file, loaded, data, parent, child, params, sgd>>

SaveBuf2 ==
    /\ fresh # NoNet
    /\ buf2 = NoBuf
    /\ buf2' = save(fresh, Alloc(getDataSize(fresh)), 0)
    /\ lastOp' = [lastOp EXCEPT !.op = "save2"]
    /\ UNCHANGED <<net, fresh, buf, file, loaded, data, parent, child, params, sgd>>

SaveNetFile ==
    /\ file = NoBuf
    /\ file' = saveNet(net)
    /\ lastOp' = [lastOp EXCEPT !.op = "saveNet"]
    /\ UNCHANGED <<net, fresh, buf, buf2, loaded, data, parent, child, params, sgd>>

LoadNetFile ==
    /\ file # NoBuf
    /\ loaded = NoNet
    /\ \E junk \in JunkVals : \E ret \in BOOLEAN :
           loaded' = loadNet(file, junk, ret)
    /\ lastOp' = [lastOp EXCEPT !.op = "loadNet"]
    /\ UNCHANGED <<net, fresh, buf, buf2, file, data, parent, child, params, sgd>>

NextNet ==
    \/ TrainNet
    \/ SaveBuf
    \/ LoadFresh
    \/ SaveBuf2
    \/ SaveNetFile
    \/ LoadNetFile

SpecNet == InitNet /\ [][NextNet]_vars

(***************************************************************************)
(* Specification of sub-views: a parent set, shuffled example by example,  *)
(* and subsets built from it and shuffled on their own.                    *)
(***************************************************************************)
InitView ==
    \E n \in 0..MaxViewCt :
        /\ data = Filled(n, [i \in 1..n |-> i % 2])
        /\ parent = ExampleSet(n, 1)
        /\ child = NoSet
        /\ lastOp = [op |-> "construct"]
        /\ NetIdle

\* ExampleSet child(parent,start,length): throws std::out_of_range or builds
MakeSubset ==
    \E start \in -1..MaxViewCt, length \in 0..(MaxViewCt + 1) :
        /\ child' = IF SubsetOutOfRange(parent, start, length)
                    THEN child
                    ELSE Subset(parent, start, length)
        /\ lastOp' = [op |-> "subset", start |-> start, length |-> length,
                      threw |-> IF SubsetOutOfRange(parent, start, length)
                                THEN "out_of_range" ELSE "none"]
        /\ UNCHANGED <<data, parent>>
        /\ UNCHANGED <<netVars, sgdVars>>

ShuffleViewParent ==
    \E draws \in Draws(numBlocks(parent, "NONE")) :
        /\ parent' = shuffle(data, parent, "NONE", draws)
        /\ lastOp' = [op |-> "shuffle", mode |-> "NONE", set |-> "parent"]
        /\ UNCHANGED <<data, child>>
        /\ UNCHANGED <<netVars, sgdVars>>

ShuffleChild ==
    /\ child # NoSet
    /\ \E draws \in Draws(numBlocks(child, "NONE")) :
        /\ child' = shuffle(data, child, "NONE", draws)
        /\ lastOp' = [op |-> "shuffle", mode |-> "NONE", set |-> "child"]
        /\ UNCHANGED <<data, parent>>
        /\ UNCHANGED <<netVars, sgdVars>>

NextView == MakeSubset \/ ShuffleViewParent \/ ShuffleChild

SpecView == InitView /\ [][NextView]_vars

(***************************************************************************)
(* Specification of shared storage: SpecView with stores through either    *)
(* set.  A store writes a value that no example holds after construction.  *)
(* One subset and one store are followed per behaviour, the subset taken   *)
(* from the parent in any order and the store made after any shuffles and  *)
(* followed by any: what a store does depends on the order of the set it   *)
(* goes through, not on the subsets and stores before it.                  *)
(***************************************************************************)
FirstSubset == child = NoSet /\ MakeSubset

Stored == MaxViewCt * 20 + 1

Unstored == \A i \in DOMAIN data : Stored \notin {data[i].ins, data[i].outs, data[i].h}

WriteThrough ==
    /\ Unstored
    /\ \E set \in {"parent", "child"}, field \in {"ins", "outs", "h"} :
        LET s == IF set = "parent" THEN parent ELSE child IN
        /\ s # NoSet
        /\ \E example \in 0..(s.ct - 1) :
            /\ data' = CASE field = "ins" -> writeInputs(data, s, example, Stored)
                         [] field = "outs" -> writeOutputs(data, s, example, Stored)
                         [] OTHER -> setH(data, s, example, Stored)
            /\ lastOp' = [op |-> "write", set |-> set, field |-> field,
                          example |-> example]
    /\ UNCHANGED <<parent, child>>
    /\ UNCHANGED <<netVars, sgdVars>>

NextShare == FirstSubset \/ ShuffleViewParent \/ ShuffleChild \/ WriteThrough

SpecShare == InitView /\ [][NextShare]_vars

(***************************************************************************)
(* Properties of the example store.                                        *)
(***************************************************************************)
Occurrences(arr, e) == Cardinality({p \in 1..Len(arr) : arr[p] = e})

IsPermutationOf(a, b) ==
    /\ Len(a) = Len(b)
    /\ \A p \in 1..Len(b) : Occurrences(a, b[p]) = Occurrences(b, b[p])

Identity(n) == [i \in 1..n |-> i]

\* C7: a shuffle in any mode, of a set of any size and numHLevels >= 1 and
\* with any draws, leaves the handle array a permutation of what it was
\* (every example exactly once) and leaves the example data as it was.
C7_ShuffleIsBijection ==
    [][lastOp'.op = "shuffle"
         => /\ IsPermutationOf(parent'.examples, parent.examples)
            /\ \A e \in 1..parent.ct : Occurrences(parent'.examples, e) = 1
            /\ data' = data]_vars

\* a shuffle in each mode has moved examples of a set of at least 3
C7_Witness ==
    /\ lastOp.op = "shuffle"
    /\ lastOp.mode = "ALTERNATE"
    /\ parent.ct >= 3
    /\ parent.numHLevels = 2
    /\ parent.examples # Identity(parent.ct)

\* C8: after shuffle(STRIDE) with numHLevels = k every aligned block of k
\* positions holds the k examples of one aligned block of the sequence
\* before the shuffle, at the same offsets.
C8_StrideKeepsBlocks ==
    [][(lastOp'.op = "shuffle" /\ lastOp'.mode = "STRIDE")
         => LET k == parent.numHLevels
                nb == parent.ct \div k
            IN  \A b \in 0..(nb - 1) :
                    \E b0 \in 0..(nb - 1) :
                        \A j \in 1..k :
                            parent'.examples[b * k + j] = parent.examples[b0 * k + j]]_vars

\* a STRIDE shuffle of two blocks of two that exchanged the blocks
C8_Witness ==
    /\ lastOp.op = "shuffle"
    /\ lastOp.mode = "STRIDE"
    /\ parent.numHLevels = 2
    /\ parent.ct = 4
    /\ parent.examples = <<3, 4, 1, 2>>

BucketCount(d, s, b) ==
    Cardinality({p \in 1..s.ct : bucket(d, s, s.examples[p]) = b})

\* every one of the numHLevels buckets occurs equally often
Balanced(d, s) ==
    /\ s.ct % s.numHLevels = 0
    /\ \A b \in 0..(s.numHLevels - 1) :
           BucketCount(d, s, b) = s.ct \div s.numHLevels

\* C9: after shuffle(ALTERNATE) on a set whose buckets occur equally often,
\* the bucket of the example at position i is i mod numHLevels.
C9_AlternateCycles ==
    (lastOp.op = "shuffle" /\ lastOp.mode = "ALTERNATE" /\ Balanced(data, parent))
        => \A i \in 0..(parent.ct - 1) :
               bucket(data, parent, parent.examples[i + 1]) = i % parent.numHLevels

\* an ALTERNATE shuffle of four examples, two in each of two buckets
C9_Witness ==
    /\ lastOp.op = "shuffle"
    /\ lastOp.mode = "ALTERNATE"
    /\ parent.numHLevels = 2
    /\ parent.ct = 4
    /\ Balanced(data, parent)
    /\ parent.examples # Identity(4)

\* C10: a subset built with (start, length) has getCount() = length and reads
\* at index i the inputs, outputs and modulator of the parent at start + i.
C10_SubsetReadsParent ==
    (lastOp.op = "subset" /\ lastOp.threw = "none")
        => /\ child.ct = lastOp.length
           /\ \A i \in 0..(lastOp.length - 1) :
                /\ getInputs(data, child, i) = getInputs(data, parent, lastOp.start + i)
                /\ getOutputs(data, child, i) = getOutputs(data, parent, lastOp.start + i)
                /\ getH(data, child, i) = getH(data, parent, lastOp.start + i)

\* a subset of two examples from index 1 of a parent that has been shuffled
C10_Witness ==
    /\ lastOp.op = "subset"
    /\ lastOp.threw = "none"
    /\ lastOp.start = 1
    /\ lastOp.length = 2
    /\ parent.examples # Identity(parent.ct)

\* C11: building a subset with (start, length) throws std::out_of_range exactly
\* when start < 0, or length < 1, or start + length > parent.getCount(); every
\* other (start, length) gives a subset of that length.
C11_SubsetThrowsExactly ==
    lastOp.op = "subset"
        => /\ lastOp.threw = "out_of_range"
                <=> \/ lastOp.start < 0
                    \/ lastOp.length < 1
                    \/ lastOp.start + lastOp.length > parent.ct
           /\ lastOp.threw \in {"out_of_range", "none"}
           /\ lastOp.threw = "none" => child.ct = lastOp.length

\* a subset that ends exactly at the parent's last example is built, ...
C11_Witness ==
    /\ lastOp.op = "subset"
    /\ lastOp.threw = "none"
    /\ lastOp.start > 0
    /\ lastOp.start + lastOp.length = parent.ct

\* ... and one that runs one example past it throws
C11_WitnessThrow ==
    /\ lastOp.op = "subset"
    /\ lastOp.threw = "out_of_range"
    /\ lastOp.start >= 0
    /\ lastOp.length >= 1
    /\ lastOp.start + lastOp.length = parent.ct + 1

\* what a set reads at each of its indices
Reads(d, s) ==
    [i \in 0..(s.ct - 1) |-> <<getInputs(d, s, i), getOutputs(d, s, i), getH(d, s, i)>>]

ReadField(d, s, example, field) ==
    CASE field = "ins" -> getInputs(d, s, example)
      [] field = "outs" -> getOutputs(d, s, example)
      [] OTHER -> getH(d, s, example)

\* C12: a subset and its parent have independent orders over shared storage:
\* a shuffle of the subset leaves what the parent reads at every index as it
\* was, a shuffle of the parent leaves what the subset reads at every index as
\* it was, and a value stored through one of them (setH, or a store through
\* getInputs / getOutputs) is read back through it at the same index and
\* through the other at every index that holds the same example.
C12_IndependentOrderSharedData ==
    [][ /\ (lastOp'.op = "shuffle" /\ lastOp'.set = "child")
            => Reads(data', parent') = Reads(data, parent)
        /\ (lastOp'.op = "shuffle" /\ lastOp'.set = "parent" /\ child # NoSet)
            => Reads(data', child') = Reads(data, child)
        /\ lastOp'.op = "write"
            => LET through == IF lastOp'.set = "parent" THEN parent' ELSE child'
                   other == IF lastOp'.set = "parent" THEN child' ELSE parent'
               IN /\ ReadField(data', through, lastOp'.example, lastOp'.field) = Stored
                  /\ other # NoSet =>
                        \A j \in 0..(other.ct - 1) :
                            other.examples[j + 1] = through.examples[lastOp'.example + 1]
                                <=> ReadField(data', other, j, lastOp'.field) = Stored
      ]_vars

\* the parent and the subset have both been shuffled out of the order of
\* construction, and a modulator stored through the subset is read through the
\* parent at an index other than start + example
C12_Witness ==
    /\ lastOp.op = "write"
    /\ lastOp.set = "child"
    /\ lastOp.field = "h"
    /\ child # NoSet
    /\ child.ct = 2
    /\ parent.examples # Identity(parent.ct)
    /\ child.examples[1] > child.examples[2]
    /\ \E j \in 0..(parent.ct - 1) :
        /\ j # lastOp.example
        /\ j # lastOp.example + 1
        /\ parent.examples[j + 1] = child.examples[lastOp.example + 1]
        /\ getH(data, parent, j) = Stored

(***************************************************************************)
(* Serialisation claims.                                                   *)
(***************************************************************************)
\* the values BPNet::save writes for a sub-network, as a sequence
Stream(bp) == saveLoop(bp, 0, 0)

\* C6: save writes exactly getDataSize() values into the buffer (every cell
\* of a buffer of that size is written and none beyond it); the block saved
\* by a fresh network of the same variant and layer sizes that loaded the
\* first block is identical to the first block; and the block of an
\* output-blending network is sub-network 0's block followed by sub-network
\* 1's, each of getDataSize()/2 values.
C6_SaveLoadSave ==
    /\ buf # NoBuf =>
          /\ Len(buf) = getDataSize(net)
          /\ \A p \in 1..Len(buf) : buf[p] # Unwritten
          /\ net.type = OUTPUTBLENDING =>
                LET half == getDataSize(net) \div 2
                IN /\ 2 * half = getDataSize(net)
                   /\ Len(Stream(net.net0.bp)) = half
                   /\ Len(Stream(net.net1.bp)) = half
                   /\ SubSeq(buf, 1, half) = Stream(net.net0.bp)
                   /\ SubSeq(buf, half + 1, 2 * half) = Stream(net.net1.bp)
    /\ buf2 # NoBuf => buf2 = buf

\* an output-blending network whose sub-networks differ has been trained,
\* saved, loaded into a fresh network and saved again
C6_Witness ==
    /\ buf2 # NoBuf
    /\ net.type = OUTPUTBLENDING
    /\ net.net0 # net.net1
    /\ Len(buf) = 14
    /\ lastOp.trained

\* C5: a network saved by saveNet and loaded by loadNet comes back with the
\* same type tag, the same getDataSize() and an identical parameter block.
C5_FactoryRoundTrip ==
    lastOp.op = "loadNet" =>
        /\ loaded.threw = "none"
        /\ loaded.returned.type = net.type
        /\ getDataSize(loaded.returned) = getDataSize(net)
        /\ save(loaded.returned, Alloc(getDataSize(net)), 0)
               = save(net, Alloc(getDataSize(net)), 0)

\* C17: a modulator-as-input network built from layer sizes s[0..L-1] reports
\* getLayerCount() = L, getLayerSize(0) = s[0], one less than the input layer
\* of the network it wraps, and getLayerSize(n) = s[n] for 1 <= n < L, so that
\* getInputCount() = s[0] and getOutputCount() = s[L-1].
C17_HInputSizes ==
    net.type = HINPUT
        => LET s == lastOp.layers
               L == Len(s)
           IN /\ getLayerCount(net) = L
              /\ getLayerSize(net, 0) = s[1]
              /\ getLayerSize(net, 0) = net.bp.layerSizes[1] - 1
              /\ \A n \in 1..(L - 1) : getLayerSize(net, n) = s[n + 1]
              /\ getInputCount(net) = s[1]
              /\ getOutputCount(net) = s[L]

(***************************************************************************)
(* SGDParams (net.hpp).  eta and initrange scale the values and are left   *)
(* out; a buffer of doubles is a sequence and the null pointer is NULL.    *)
(***************************************************************************)
NULL == <<>>

\* SGDParams::init(_eta,_iters)
SGDParams(iters) ==
    [seed |-> 0,
     iterations |-> iters,
     bestNetBuffer |-> NULL,
     ownsBestNetBuffer |-> FALSE,
     storeBestNet |-> FALSE,
     nSlices |-> 0,
     nPerSlice |-> 0,
     cvInterval |-> 1,
     shuffleMode |-> "STRIDE",
     selectBestWithCV |-> FALSE,
     cvShuffle |-> TRUE]

crossValidationManual(p, slices, nperslice, interval) ==
    [p EXCEPT !.nSlices = slices, !.nPerSlice = nperslice, !.cvInterval = interval]

setSelectBestWithCV(p, v) == [p EXCEPT !.selectBestWithCV = v]

setCVShuffle(p, v) == [p EXCEPT !.cvShuffle = v]

storeBest(p) == [p EXCEPT !.ownsBestNetBuffer = TRUE, !.storeBestNet = TRUE]

\* What a caller may do to the parameters before a call: build a new object
\* (object "new"), build one and set its bestNetBuffer by hand to a buffer
\* of its own, whose content is whatever the allocation left there (object
\* "own", content junk), or reuse the object of the last call (object
\* "reuse"); then set the iteration count and call the fluent setters.
ObjectChoices ==
    [object : {"new", "reuse"}, junk : {0}] \cup [object : {"own"}, junk : JunkVals]

ConfigChoices ==
    [from : ObjectChoices, iters : 0..MaxIter,
     slices : (-1)..MaxSlices, nperslice : (-1)..MaxPerSlice,
     interval : 1..MaxInterval,
     selectBestWithCV : BOOLEAN, cvShuffle : BOOLEAN, storeBest : BOOLEAN]

Configure(cur, c, size) ==
    LET p0 == CASE c.from.object = "reuse" -> [cur EXCEPT !.iterations = c.iters]
                [] c.from.object = "new" -> SGDParams(c.iters)
                [] OTHER -> [SGDParams(c.iters) EXCEPT
                                !.bestNetBuffer = [q \in 1..size |-> c.from.junk]]
        p1 == crossValidationManual(p0, c.slices, c.nperslice, c.interval)
        p2 == setCVShuffle(setSelectBestWithCV(p1, c.selectBestWithCV), c.cvShuffle)
    IN IF c.storeBest THEN storeBest(p2) ELSE p2

(***************************************************************************)
(* trainSGD (net.hpp).                                                     *)
(***************************************************************************)
trainSGDChecksSwapped(p, count) ==
    LET nCV == p.nSlices * p.nPerSlice
    IN IF nCV = 0 /\ p.selectBestWithCV THEN "logic_error"
       ELSE IF nCV >= count THEN "out_of_range"
       ELSE "none"

\* the two checks at the head of trainSGD: the exception thrown, or "none"
trainSGDChecks(p, count) ==
    LET nCV == p.nSlices * p.nPerSlice
    IN IF nCV >= count THEN "out_of_range"
       ELSE IF nCV = 0 /\ p.selectBestWithCV THEN "logic_error"
       ELSE "none"

\* examples.shuffle(&rd,mode,nExamples): the shuffle of the first nExamples
\* examples, the training subset; the rest keep their places
shuffleN(d, s, mode, nExamples, draws) ==
    LET head == shuffle(d, [s EXCEPT !.ct = nExamples,
                                     !.examples = SubSeq(s.examples, 1, nExamples)],
                        mode, draws)
    IN [s EXCEPT !.examples = head.examples \o SubSeq(s.examples, nExamples + 1, s.ct)]

KeepBestOrEqual(p, n, minError, tracked) ==
    LET better == minError < 0 \/ tracked <= minError
    IN [better |-> better,
        minError |-> IF better THEN tracked ELSE minError,
        saved |-> better /\ p.storeBestNet,
        bestNetBuffer |->
            IF better /\ p.storeBestNet
            THEN save(n, IF p.bestNetBuffer = NULL THEN Alloc(getDataSize(n))
                         ELSE p.bestNetBuffer, 0)
            ELSE p.bestNetBuffer]

\* the test for a new best network and the snapshot taken when it succeeds:
\* tracked is the error compared with the minimum
KeepBest(p, n, minError, tracked) ==
    LET better == minError < 0 \/ tracked < minError
    IN [better |-> better,
        minError |-> IF better THEN tracked ELSE minError,
        saved |-> better /\ p.storeBestNet,
        bestNetBuffer |->
            IF better /\ p.storeBestNet
            THEN save(n, IF p.bestNetBuffer = NULL THEN Alloc(getDataSize(n))
                         ELSE p.bestNetBuffer, 0)
            ELSE p.bestNetBuffer]

(***************************************************************************)
(* Specification of training: calls of trainSGD on one network and one     *)
(* example set, each with parameters the caller has configured, one after  *)
(* the other.  A call is entered (the checks, initWeights, the building of *)
(* cvExamples), runs its iterations one by one, and finishes.  The errors  *)
(* returned by trainBatch and test are any values 0..MaxErr; a training    *)
(* step changes every parameter above the input layer.                     *)
(***************************************************************************)
SGDLayers == <<1, 1>>

InitSGD ==
    \E count \in 0..MaxExamples : \E junk \in JunkVals :
        /\ data = Filled(count, [i \in 1..count |-> 0])
        /\ parent = ExampleSet(count, 1)
        /\ child = NoSet
        /\ lastOp = [op |-> "construct"]
        /\ net = makeNet(PLAIN, Len(SGDLayers), SGDLayers, junk)
        /\ fresh = NoNet
        /\ buf = NoBuf
        /\ buf2 = NoBuf
        /\ file = NoBuf
        /\ loaded = NoNet
        /\ params = NoParams
        /\ sgd = [pc |-> "idle"]

\* trainSGD from its entry to the head of the loop, or to the exception
TrainSGD_Enter ==
    /\ sgd.pc = "idle"
    /\ \E c \in ConfigChoices :
        /\ c.from.object = "reuse" => params # NoParams
        /\ LET p == Configure(params, c, getDataSize(net))
               count == parent.ct
               nCV == p.nSlices * p.nPerSlice
               chk == trainSGDChecks(p, count)
               net1 == initWeights(net, p.seed)
               start == IF nCV # 0 THEN count - nCV ELSE 0
               length == IF nCV # 0 THEN nCV ELSE 1
               locals == [pc |-> "loop", threw |-> "none", initDone |-> TRUE,
                          nCV |-> nCV, nExamples |-> count - nCV,
                          i |-> 0, minError |-> -1,
                          cvCountdown |-> p.cvInterval, cvSlice |-> 0,
                          error |-> -1,
                          cvEvent |-> FALSE, better |-> FALSE, minBefore |-> -1,
                          saved |-> FALSE, lastTrained |-> net1,
                          netBefore |-> NoNet, examplesBefore |-> NoSet]
               thrown(e) == [locals EXCEPT !.pc = "threw", !.threw = e,
                                           !.netBefore = net,
                                           !.examplesBefore = parent]
           IN /\ params' = p
              /\ IF chk # "none"
                 THEN /\ net' = net
                      /\ child' = NoSet
                      /\ sgd' = [thrown(chk) EXCEPT !.initDone = FALSE,
                                                    !.lastTrained = net]
                 ELSE IF SubsetOutOfRange(parent, start, length)
                 THEN /\ net' = net1
                      /\ child' = NoSet
                      /\ sgd' = thrown("out_of_range")
                 ELSE /\ net' = net1
                      /\ child' = Subset(parent, start, length)
                      /\ sgd' = locals
    /\ UNCHANGED <<data, parent, lastOp, fresh, buf, buf2, file, loaded>>

NoBest(p, minError) ==
    [better |-> FALSE, minError |-> minError, saved |-> FALSE,
     bestNetBuffer |-> p.bestNetBuffer]

\* one iteration of the loop of trainSGD
TrainSGD_Iterate ==
    /\ sgd.pc = "loop"
    /\ sgd.i < params.iterations
    /\ LET exampleIndex == CMod(sgd.i, sgd.nExamples)
           epoch == exampleIndex = 0
           cd == IF sgd.nCV # 0 THEN sgd.cvCountdown - 1 ELSE sgd.cvCountdown
           cv == sgd.nCV # 0 /\ cd = 0
           cvSlice1 == IF cv THEN CMod(sgd.cvSlice + 1, params.nSlices)
                       ELSE sgd.cvSlice
           reshuffle == cv /\ cvSlice1 = 0 /\ params.cvShuffle
           training == [parent EXCEPT !.ct = sgd.nExamples]
       IN \E draws \in IF epoch THEN Draws(numBlocks(training, params.shuffleMode))
                       ELSE {<<>>} :
          \E cvDraws \in IF reshuffle THEN Draws(numBlocks(child, params.shuffleMode))
                         ELSE {<<>>} :
          \E trainingError \in 0..MaxErr :
          \E error \in IF cv THEN 0..MaxErr ELSE {-1} :
             LET net1 == trainBatch(net, 0, 1)
                 k1 == IF ~params.selectBestWithCV
                       THEN KeepBest(params, net1, sgd.minError, trainingError)
                       ELSE NoBest(params, sgd.minError)
                 p1 == [params EXCEPT !.bestNetBuffer = k1.bestNetBuffer]
                 k2 == IF cv /\ params.selectBestWithCV
                       THEN KeepBest(p1, net1, k1.minError, trainingError)
                       ELSE NoBest(p1, k1.minError)
             IN /\ parent' = IF epoch
                             THEN shuffleN(data, parent, params.shuffleMode,
                                           sgd.nExamples, draws)
                             ELSE parent
                /\ net' = net1
                /\ params' = [params EXCEPT !.bestNetBuffer = k2.bestNetBuffer]
                /\ child' = IF reshuffle
                            THEN shuffle(data, child, params.shuffleMode, cvDraws)
                            ELSE child
                /\ sgd' = [sgd EXCEPT !.i = @ + 1,
                                      !.minError = k2.minError,
                                      !.cvCountdown = IF cv THEN params.cvInterval ELSE cd,
                                      !.cvSlice = cvSlice1,
                                      !.error = error,
                                      !.cvEvent = cv,
                                      !.better = k2.better,
                                      !.minBefore = k1.minError,
                                      !.saved = @ \/ k1.saved \/ k2.saved,
                                      !.lastTrained = net1]
    /\ UNCHANGED <<data, lastOp, fresh, buf, buf2, file, loaded>>

\* after the loop: if(params.bestNetBuffer) load(params.bestNetBuffer); return
TrainSGD_Finish ==
    /\ sgd.pc = "loop"
    /\ sgd.i >= params.iterations
    /\ net' = IF params.bestNetBuffer # NULL THEN load(net, params.bestNetBuffer, 0)
              ELSE net
    /\ sgd' = [sgd EXCEPT !.pc = "returned"]
    /\ UNCHANGED <<data, parent, child, params, lastOp, fresh, buf, buf2, file, loaded>>

\* The call has ended, by a return or by an exception: its locals and
\* cvExamples are gone.  Of the parameter object the caller keeps what the
\* configuration of the next call does not overwrite when it reuses the
\* object: bestNetBuffer, ownsBestNetBuffer and storeBestNet.
TrainSGD_Leave ==
    /\ sgd.pc \in {"returned", "threw"}
    /\ sgd' = [pc |-> "idle"]
    /\ child' = NoSet
    /\ params' = [SGDParams(0) EXCEPT !.bestNetBuffer = params.bestNetBuffer,
                                      !.ownsBestNetBuffer = params.ownsBestNetBuffer,
                                      !.storeBestNet = params.storeBestNet]
    /\ UNCHANGED <<data, parent, net, lastOp, fresh, buf, buf2, file, loaded>>

\* one call of trainSGD on a network just built
NextSGD ==
    \/ TrainSGD_Enter
    \/ TrainSGD_Iterate
    \/ TrainSGD_Finish

SpecSGD == InitSGD /\ [][NextSGD]_vars

\* any number of calls, one after the other
NextSGDCalls ==
    \/ TrainSGD_Enter
    \/ TrainSGD_Iterate
    \/ TrainSGD_Finish
    \/ TrainSGD_Leave

SpecSGDCalls == InitSGD /\ [][NextSGDCalls]_vars

(***************************************************************************)
(* Training claims.                                                        *)
(***************************************************************************)
\* the parameter block of the live network
LiveBlock == save(net, Alloc(getDataSize(net)), 0)

\* C1: when trainSGD returns normally after at least one iteration, whatever
\* calls came before: if a snapshot was saved during this call the live
\* parameters equal it, and if none was saved during this call the live
\* parameters are those left by the last training iteration.
C1_ReturnsBestOrLast ==
    (sgd.pc = "returned" /\ sgd.i >= 1) =>
        IF sgd.saved THEN LiveBlock = params.bestNetBuffer
        ELSE net = sgd.lastTrained

\* C2: with selectBestWithCV, at every cross-validation event the improvement
\* branch is taken exactly when there is no minimum yet or the slice error
\* returned by test is strictly lower than the minimum, and then the minimum
\* becomes that slice error.
C2_SliceErrorSelects ==
    (sgd.pc \in {"loop", "returned"} /\ params.selectBestWithCV /\ sgd.cvEvent) =>
        /\ sgd.better <=> (sgd.minBefore < 0 \/ sgd.error < sgd.minBefore)
        /\ sgd.better => sgd.minError = sgd.error

\* C3 as stated: a range error whenever nCV >= count, and a configuration
\* error whenever selectBestWithCV is set and nCV = 0; no iteration is run.
C3_AsStated ==
    sgd.pc \in {"loop", "threw", "returned"} =>
        LET nCV == params.nSlices * params.nPerSlice
        IN /\ nCV >= parent.ct =>
                sgd.pc = "threw" /\ sgd.threw = "out_of_range" /\ sgd.i = 0
           /\ (params.selectBestWithCV /\ nCV = 0) =>
                sgd.pc = "threw" /\ sgd.threw = "logic_error" /\ sgd.i = 0

\* C3: trainSGD throws a range error whenever nCV >= count, and a
\* configuration error whenever selectBestWithCV is set, nCV = 0 and the
\* range check has passed (the example set is not empty); in both cases no
\* iteration is run.
C3_ChecksUpFront ==
    sgd.pc \in {"loop", "threw", "returned"} =>
        LET nCV == params.nSlices * params.nPerSlice
        IN /\ nCV >= parent.ct =>
                sgd.pc = "threw" /\ sgd.threw = "out_of_range" /\ sgd.i = 0
           /\ (params.selectBestWithCV /\ nCV = 0 /\ nCV < parent.ct) =>
                sgd.pc = "threw" /\ sgd.threw = "logic_error" /\ sgd.i = 0

\* a call that selects by cross-validation without any cross-validation
\* examples on a set of two examples has thrown the configuration error
C3_Witness ==
    /\ sgd.pc = "threw"
    /\ sgd.threw = "logic_error"
    /\ params.selectBestWithCV
    /\ params.nSlices * params.nPerSlice = 0
    /\ parent.ct = 2

\* C4: whenever trainSGD throws, it throws before initWeights and before any
\* iteration: the network's parameters and the order of the examples are
\* those of before the call.
C4_FailuresUpFront ==
    sgd.pc = "threw" =>
        /\ ~sgd.initDone
        /\ sgd.i = 0
        /\ net = sgd.netBefore
        /\ parent = sgd.examplesBefore

(***************************************************************************)
(* The forward pass and back-propagation.  Doubles are exact numbers here, *)
(* counted in units that make every value an integer.  The logistic        *)
(* function is stood in for by a ramp onto 0..One, where One stands for    *)
(* 1.0 and sigmoid(0) is half of it; the (1-o) of the error terms is       *)
(* One - o.  A running network carries, beside its parameters, the arrays  *)
(* init allocates: outputs, zeroed, and errors, never written by init.     *)
(***************************************************************************)
Half == 2

One == 2 * Half

sigmoidZeroAtZero(x) == IF x <= 0 THEN 0 ELSE IF x >= One THEN One ELSE x

sigmoid(x) == IF x <= -Half THEN 0 ELSE IF x >= Half THEN One ELSE x + Half

\* outputs and errors as BPNet::init leaves them
outputsInit(bp) == [i \in 1..bp.numLayers |-> [k \in 1..bp.layerSizes[i] |-> 0]]

errorsInit(bp, junk) == [i \in 1..bp.numLayers |-> [k \in 1..bp.layerSizes[i] |-> junk]]

\* BPNet::setInputs
setInputs(outputs, d) == [outputs EXCEPT ![1] = [k \in 1..Len(@) |-> d[k]]]

RECURSIVE weightedSum(_, _, _, _, _)
\* the sum over k of getw(i,j,k) * outputs[i-1][k], from k on
weightedSum(bp, outputs, i, j, k) ==
    IF k >= bp.layerSizes[i] THEN 0
    ELSE getw(bp, i, j, k) * outputs[i][k + 1] + weightedSum(bp, outputs, i, j, k + 1)

\* BPNet::update, the argument of sigmoid at node j of layer i
BPNet_v(bp, outputs, i, j) == bp.biases[i + 1][j + 1] + weightedSum(bp, outputs, i, j, 0)

UESNet_vModulatedBias(bp, modulator, outputs, i, j) ==
    (weightedSum(bp, outputs, i, j, 0) + bp.biases[i + 1][j + 1]) * (modulator + 1)

\* UESNet::update, the argument of sigmoid at node j of layer i
UESNet_v(bp, modulator, outputs, i, j) ==
    weightedSum(bp, outputs, i, j, 0) * (modulator + 1) + bp.biases[i + 1][j + 1]

RECURSIVE BPNet_updateLoop(_, _, _)
BPNet_updateLoop(bp, outputs, i) ==
    IF i >= bp.numLayers THEN outputs
    ELSE BPNet_updateLoop(bp,
             [outputs EXCEPT ![i + 1] = [j \in 1..bp.layerSizes[i + 1] |->
                                            sigmoid(BPNet_v(bp, outputs, i, j - 1))]],
             i + 1)

BPNet_update(bp, outputs) == BPNet_updateLoop(bp, outputs, 1)

RECURSIVE UESNet_updateLoop(_, _, _, _)
UESNet_updateLoop(bp, modulator, outputs, i) ==
    IF i >= bp.numLayers THEN outputs
    ELSE UESNet_updateLoop(bp, modulator,
             [outputs EXCEPT ![i + 1] = [j \in 1..bp.layerSizes[i + 1] |->
                                            sigmoid(UESNet_v(bp, modulator, outputs, i, j - 1))]],
             i + 1)

UESNet_update(bp, modulator, outputs) == UESNet_updateLoop(bp, modulator, outputs, 1)

\* calcError, the output layer: errors[ol][i] = o*(1-o)*(o-out[i])
outputErrors(bp, outputs, errors, out) ==
    LET ol == bp.numLayers - 1
    IN [errors EXCEPT ![ol + 1] = [i \in 1..bp.layerSizes[ol + 1] |->
            LET o == outputs[ol + 1][i] IN o * (One - o) * (o - out[i])]]

RECURSIVE backSum(_, _, _, _, _)
\* the sum over i of errors[l+1][i] * getw(l+1,i,j), from i on
backSum(bp, errors, l, j, i) ==
    IF i >= bp.layerSizes[l + 2] THEN 0
    ELSE errors[l + 2][i + 1] * getw(bp, l + 1, i, j) + backSum(bp, errors, l, j, i + 1)

RECURSIVE hiddenErrors(_, _, _, _, _)
\* calcError, the other layers, for(l=1;l<numLayers-1;l++): layer l is
\* computed from what errors[l+1] holds when the loop reaches l
hiddenErrors(bp, hfactor, outputs, errors, l) ==
    IF l >= bp.numLayers - 1 THEN errors
    ELSE hiddenErrors(bp, hfactor, outputs,
             [errors EXCEPT ![l + 1] = [j \in 1..bp.layerSizes[l + 1] |->
                 backSum(bp, errors, l, j - 1, 0) * hfactor
                     * outputs[l + 1][j] * (One - outputs[l + 1][j])]],
             l + 1)

\* the step that ends trainBatch with num = 1: getw(l,i,j) -= eta *
\* errors[l][i]*outputs[l-1][j] * hfactor and biases[l][i] -= eta * errors[l][i]
applyGradients(bp, hfactor, outputs, errors, eta) ==
    [bp EXCEPT
        !.biases = [l \in 1..bp.numLayers |-> [i \in 1..bp.layerSizes[l] |->
            IF l = 1 THEN @[l][i] ELSE @[l][i] - eta * errors[l][i]]],
        !.weights = [l \in 1..bp.numLayers |->
            [c \in 1..(bp.largestLayerSize * bp.largestLayerSize) |->
                LET i == (c - 1) % bp.largestLayerSize
                    j == (c - 1) \div bp.largestLayerSize
                IN IF l > 1 /\ i < bp.layerSizes[l] /\ j < bp.layerSizes[l - 1]
                   THEN @[l][c] - eta * (errors[l][i + 1] * outputs[l - 1][j + 1]) * hfactor
                   ELSE @[l][c]]]]

\* the sum over the outputs of (o-outs[i])^2 that trainBatch returns
totalError(bp, outputs, out) ==
    LET ol == bp.numLayers - 1
        sq == [i \in 1..bp.layerSizes[ol + 1] |->
                  (outputs[ol + 1][i] - out[i]) * (outputs[ol + 1][i] - out[i])]
        sumTo[n \in 0..bp.layerSizes[ol + 1]] == IF n = 0 THEN 0 ELSE sumTo[n - 1] + sq[n]
    IN sumTo[bp.layerSizes[ol + 1]]

\* BPNet::trainBatch(ex,start,1,eta) on an example with inputs in, outputs out
BPNet_trainExample(n, in, out, eta) ==
    LET o == BPNet_update(n.bp, setInputs(n.outputs, in))
        e == hiddenErrors(n.bp, 1, o, outputErrors(n.bp, o, n.errors, out), 1)
    IN [n EXCEPT !.bp = applyGradients(n.bp, 1, o, e, eta), !.outputs = o, !.errors = e]

\* UESNet::trainBatch(ex,start,1,eta) on an example with modulator h
UESNet_trainExample(n, in, out, h, eta) ==
    LET o == UESNet_update(n.bp, h, setInputs(n.outputs, in))
        e == hiddenErrors(n.bp, h + 1, o, outputErrors(n.bp, o, n.errors, out), 1)
    IN [n EXCEPT !.bp = applyGradients(n.bp, h + 1, o, e, eta),
                 !.modulator = h, !.outputs = o, !.errors = e]

\* setH(h) and run(in)
UESNet_run(n, in, h) ==
    [n EXCEPT !.modulator = h, !.outputs = UESNet_update(n.bp, h, setInputs(n.outputs, in))]

BPNet_run(n, in) == [n EXCEPT !.outputs = BPNet_update(n.bp, setInputs(n.outputs, in))]

(***************************************************************************)
(* Specification of the modulated network beside the plain one: a UESNet   *)
(* and a BPNet of the same layer sizes are built and given the same        *)
(* parameter block by load; then both are run on the same inputs, and      *)
(* trained on the same example, any number of times up to MaxTrain         *)
(* trainings.  What each network's errors array holds at construction is   *)
(* its own.                                                                *)
(***************************************************************************)
MaxTrain == 1

BackpropLayers == {<<1, 1>>, <<2, 1>>, <<1, 2, 1>>, <<1, 1, 1, 1>>}

\* parameter blocks of n values, each of them -1, 0 or 1
ParamBlocks(n) == {[p \in 1..n |-> ((p * m + c) % 3) - 1] : m \in 0..1, c \in 0..2}

Vectors(n, vals) == [1..n -> vals]

\* the nodes above the input layer, as <<layer, node>>, both counted from 0
Nodes(bp) == {<<l, i>> \in (1..(bp.numLayers - 1)) \X (0..(bp.largestLayerSize - 1)) :
                  i < bp.layerSizes[l + 1]}

\* two networks of the same layer sizes hold the same weights and biases
sameParameters(a, b) ==
    \A n \in Nodes(a) :
        /\ a.biases[n[1] + 1][n[2] + 1] = b.biases[n[1] + 1][n[2] + 1]
        /\ \A k \in 0..(a.layerSizes[n[1]] - 1) :
               getw(a, n[1], n[2], k) = getw(b, n[1], n[2], k)

InitUES ==
    \E layers \in BackpropLayers : \E ju \in JunkVals : \E jp \in JunkVals :
        LET u == UESNet(Len(layers), layers, ju)
            p == BPNet(Len(layers), layers, jp)
        IN \E block \in ParamBlocks(getDataSize(u)) :
            /\ net = [type |-> u.type, bp |-> load(u, block, 0).bp, modulator |-> 0,
                      outputs |-> outputsInit(u.bp), errors |-> errorsInit(u.bp, ju)]
            /\ fresh = [type |-> p.type, bp |-> load(p, block, 0).bp,
                        outputs |-> outputsInit(p.bp), errors |-> errorsInit(p.bp, jp)]
            /\ lastOp = [op |-> "load", trained |-> 0]
            /\ buf = NoBuf
            /\ buf2 = NoBuf
            /\ file = NoBuf
            /\ loaded = NoNet
            /\ data = <<>>
            /\ parent = NoSet
            /\ child = NoSet
            /\ params = NoParams
            /\ sgd = NoSGD

RunBoth ==
    \E in \in Vectors(net.bp.layerSizes[1], {0, 1}) : \E h \in 0..1 :
        /\ net' = UESNet_run(net, in, h)
        /\ fresh' = BPNet_run(fresh, in)
        /\ lastOp' = [op |-> "run", in |-> in, h |-> h, trained |-> lastOp.trained,
                      same |-> sameParameters(net.bp, fresh.bp)]
        /\ UNCHANGED <<buf, buf2, file, loaded>>
        /\ UNCHANGED <<data, parent, child, params, sgd>>

TrainBoth ==
    /\ lastOp.trained < MaxTrain
    /\ \E in \in Vectors(net.bp.layerSizes[1], {0, 1}) :
       \E out \in Vectors(net.bp.layerSizes[net.bp.numLayers], {0, One}) :
       \E h \in 0..1 : \E eta \in 1..2 :
        /\ net' = UESNet_trainExample(net, in, out, h, eta)
        /\ fresh' = BPNet_trainExample(fresh, in, out, eta)
        /\ lastOp' = [op |-> "train", in |-> in, out |-> out, h |-> h, eta |-> eta,
                      trained |-> lastOp.trained + 1,
                      same |-> sameParameters(net.bp, fresh.bp),
                      before |-> net.bp, beforePlain |-> fresh.bp]
        /\ UNCHANGED <<buf, buf2, file, loaded>>
        /\ UNCHANGED <<data, parent, child, params, sgd>>

NextUES == RunBoth \/ TrainBoth

SpecUES == InitUES /\ [][NextUES]_vars

(***************************************************************************)
(* Claims about the modulated network.                                     *)
(***************************************************************************)
\* C13: a UESMANN network at h = 0 and a plain network with the same layer
\* sizes, weights and biases have the same argument of sigmoid and the same
\* output at every node for the same inputs, and one trainBatch on the same
\* single example with h = 0 and the same eta leaves them with the same
\* weights and biases.
C13_PlainAtZero ==
    (lastOp.op \in {"run", "train"} /\ lastOp.same /\ lastOp.h = 0)
        => /\ net.outputs = fresh.outputs
           /\ lastOp.op = "run" =>
                \A n \in Nodes(net.bp) :
                    UESNet_v(net.bp, 0, net.outputs, n[1], n[2])
                        = BPNet_v(fresh.bp, fresh.outputs, n[1], n[2])
           /\ lastOp.op = "train" => sameParameters(net.bp, fresh.bp)

\* two networks of at least four layers whose errors arrays held different
\* values at construction have been trained once on the same example
C13_Diverged ==
    /\ lastOp.op = "train"
    /\ lastOp.same
    /\ lastOp.h = 0
    /\ net.bp.numLayers >= 4
    /\ ~sameParameters(net.bp, fresh.bp)

\* C14: at every node of a UESMANN network the argument of sigmoid is
\* bias + (h+1) * sum(weight * input): the bias enters once for every h and the
\* weighted part at h = 1 is twice that at h = 0; and one trainBatch on a
\* single example changes each weight by -eta * (h+1) * error_i * output_j and
\* each bias by -eta * error_i.
C14_ModulatorScalesWeights ==
    /\ lastOp.op = "run" =>
        \A n \in Nodes(net.bp) :
            LET b == net.bp.biases[n[1] + 1][n[2] + 1]
                sum == weightedSum(net.bp, net.outputs, n[1], n[2], 0)
            IN /\ net.outputs[n[1] + 1][n[2] + 1] = sigmoid(b + (lastOp.h + 1) * sum)
               /\ UESNet_v(net.bp, lastOp.h, net.outputs, n[1], n[2]) = b + (lastOp.h + 1) * sum
               /\ UESNet_v(net.bp, 1, net.outputs, n[1], n[2]) - b
                    = 2 * (UESNet_v(net.bp, 0, net.outputs, n[1], n[2]) - b)
    /\ lastOp.op = "train" =>
        \A n \in Nodes(net.bp) :
            LET error == net.errors[n[1] + 1][n[2] + 1]
            IN /\ net.bp.biases[n[1] + 1][n[2] + 1]
                    = lastOp.before.biases[n[1] + 1][n[2] + 1] - lastOp.eta * error
               /\ \A j \in 0..(net.bp.layerSizes[n[1]] - 1) :
                    getw(net.bp, n[1], n[2], j)
                        = getw(lastOp.before, n[1], n[2], j)
                            - lastOp.eta * (lastOp.h + 1) * error * net.outputs[n[1]][j + 1]

\* a network with a hidden layer has been trained at h = 1 with eta = 2 and a
\* weight into the hidden layer and a bias of the output layer have changed
C14_Witness ==
    /\ lastOp.op = "train"
    /\ lastOp.h = 1
    /\ lastOp.eta = 2
    /\ net.bp.numLayers = 3
    /\ getw(net.bp, 1, 0, 0) # getw(lastOp.before, 1, 0, 0)
    /\ net.bp.biases[3][1] # lastOp.before.biases[3][1]

\* a run at h = 1 through a node with a bias and a weighted sum other than zero
C14_WitnessRun ==
    /\ lastOp.op = "run"
    /\ lastOp.h = 1
    /\ \E n \in Nodes(net.bp) :
        /\ net.bp.biases[n[1] + 1][n[2] + 1] # 0
        /\ weightedSum(net.bp, net.outputs, n[1], n[2], 0) # 0

(***************************************************************************)
(* Output blending.  The running network holds its two sub-networks, the   *)
(* modulator, which its constructor does not set, and lastError, kept as   *)
(* <<numerator, denominator>>.  The examples carry vectors of inputs and   *)
(* outputs.                                                                *)
(***************************************************************************)
\* a running BPNet: the parameters in block, outputs and errors as init leaves them
RunningBPNet(nlayers, layerCounts, block, off, junk) ==
    LET p == BPNet(nlayers, layerCounts, junk)
    IN [type |-> p.type, bp |-> BPNet_load(p.bp, block, off),
        outputs |-> outputsInit(p.bp), errors |-> errorsInit(p.bp, junk)]

\* a running network of variant t, its parameters loaded from block
RunningNet(t, nlayers, layerCounts, block, junk) ==
    LET m == makeNet(t, nlayers, layerCounts, junk)
    IN CASE t = OUTPUTBLENDING ->
              LET size == BPNet_getDataSize(m.net0.bp)
              IN [type |-> m.type,
                  net0 |-> RunningBPNet(nlayers, layerCounts, block, 0, junk),
                  net1 |-> RunningBPNet(nlayers, layerCounts, block, size, junk),
                  modulator |-> junk,
                  interpolatedOutputs |-> [i \in 1..m.net0.bp.layerSizes[nlayers] |-> junk],
                  lastError |-> <<-1, 1>>]
         [] t = UESMANN ->
              [type |-> m.type, bp |-> load(m, block, 0).bp, modulator |-> 0,
               outputs |-> outputsInit(m.bp), errors |-> errorsInit(m.bp, junk)]
         [] t = HINPUT ->
              [type |-> m.type, bp |-> load(m, block, 0).bp, modulator |-> junk,
               outputs |-> outputsInit(m.bp), errors |-> errorsInit(m.bp, junk)]
         [] OTHER ->
              [type |-> m.type, bp |-> load(m, block, 0).bp,
               outputs |-> outputsInit(m.bp), errors |-> errorsInit(m.bp, junk)]

OB_selectByModulator(n, d, s, start) == IF 2 * n.modulator < 1 THEN 0 ELSE 1

\* double hzero = (ex.getH(start)<0.5);  Net *net = hzero ? net0 : net1;
OB_select(n, d, s, start) == IF 2 * getH(d, s, start) < 1 THEN 0 ELSE 1

\* OutputBlendingNet::setH
OB_setH(n, h) == [n EXCEPT !.modulator = h]

\* the value and the new lastError that end OutputBlendingNet::trainBatch
OB_lastError(lastError, hzero, e) ==
    IF lastError[1] < 0 THEN <<e, 1>>
    ELSE IF hzero THEN lastError
    ELSE <<e * lastError[2] + lastError[1], 2 * lastError[2]>>

\* OutputBlendingNet::trainBatch(ex,start,num,eta).  The runtime_error made
\* when num != 1 is a temporary that is never thrown: the call goes on.
OB_trainBatch(n, d, s, start, num, eta) ==
    LET which == OB_select(n, d, s, start)
        sub == IF which = 0 THEN n.net0 ELSE n.net1
        trained == BPNet_trainExample(sub, getInputs(d, s, start), getOutputs(d, s, start), eta)
        e == totalError(trained.bp, trained.outputs, getOutputs(d, s, start))
    IN [threw |-> "none",
        n |-> [n EXCEPT !.net0 = IF which = 0 THEN trained ELSE @,
                        !.net1 = IF which = 1 THEN trained ELSE @,
                        !.lastError = OB_lastError(@, which = 0, e)],
        \* in each of the three branches rv is the value lastError has after it
        rv |-> OB_lastError(n.lastError, which = 0, e),
        e |-> e]

(***************************************************************************)
(* Specification of output blending: a network is built and loaded with a  *)
(* parameter block, over a set of two examples, the first with h = 0 and   *)
(* the second with h = 1; then setH and trainBatch are called in any       *)
(* order, trainBatch with any start and with num from 0 to 2, up to        *)
(* MaxTrain times.                                                         *)
(***************************************************************************)
OBLayers == {<<1, 1>>, <<2, 1>>, <<1, 2, 1>>}

InitOB ==
    \E layers \in OBLayers : \E junk \in JunkVals :
    \E ins \in Vectors(layers[1], {0, 1}) : \E outs \in Vectors(layers[Len(layers)], {0, One}) :
        LET size == BPNet_getDataSize(init(Len(layers), layers, junk))
        IN \E block \in ParamBlocks(2 * size) :
            /\ net = RunningNet(OUTPUTBLENDING, Len(layers), layers, block, junk)
            /\ data = [i \in 1..2 |-> [ins |-> ins, outs |-> outs, h |-> i - 1]]
            /\ parent = setHRange(ExampleSet(2, 2), 0, 1)
            /\ lastOp = [op |-> "load", trained |-> 0]
            /\ fresh = NoNet
            /\ buf = NoBuf
            /\ buf2 = NoBuf
            /\ file = NoBuf
            /\ loaded = NoNet
            /\ child = NoSet
            /\ params = NoParams
            /\ sgd = NoSGD

OBSetH ==
    \E h \in 0..1 :
        /\ net' = OB_setH(net, h)
        /\ lastOp' = [op |-> "setH", h |-> h, trained |-> lastOp.trained]
        /\ UNCHANGED <<fresh, buf, buf2, file, loaded>>
        /\ UNCHANGED <<data, parent, child, params, sgd>>

OBTrainBatch ==
    /\ lastOp.trained < MaxTrain
    /\ \E start \in 0..(parent.ct - 1) : \E num \in 0..2 : \E eta \in 1..2 :
        LET r == OB_trainBatch(net, data, parent, start, num, eta)
        IN /\ net' = r.n
           /\ lastOp' = [op |-> "trainBatch", start |-> start, num |-> num, eta |-> eta,
                         threw |-> r.threw, trained |-> lastOp.trained + 1,
                         before |-> net]
    /\ UNCHANGED <<fresh, buf, buf2, file, loaded>>
    /\ UNCHANGED <<data, parent, child, params, sgd>>

NextOB == OBSetH \/ OBTrainBatch

SpecOB == InitOB /\ [][NextOB]_vars

(***************************************************************************)
(* Claims about output blending.                                           *)
(***************************************************************************)
\* C15: trainBatch on a single example trains one sub-network only, net0 when
\* that example's h < 0.5 and net1 otherwise, whatever value setH was last
\* given: the other sub-network is as it was before the call, every weight and
\* bias of it, and the selected one is as its own trainBatch on the example
\* leaves it.
C15_TrainsOneSubnet ==
    (lastOp.op = "trainBatch" /\ lastOp.num = 1)
        => LET h == getH(data, parent, lastOp.start)
               is0 == 2 * h < 1
               other == IF is0 THEN net.net1 ELSE net.net0
               otherBefore == IF is0 THEN lastOp.before.net1 ELSE lastOp.before.net0
               chosen == IF is0 THEN net.net0 ELSE net.net1
               chosenBefore == IF is0 THEN lastOp.before.net0 ELSE lastOp.before.net1
           IN /\ other = otherBefore
              /\ chosen = BPNet_trainExample(chosenBefore, getInputs(data, parent, lastOp.start),
                                             getOutputs(data, parent, lastOp.start), lastOp.eta)

\* setH(0) was the last value set, the example trained has h = 1, and the
\* parameters of net1 have changed
C15_Witness ==
    /\ lastOp.op = "trainBatch"
    /\ lastOp.num = 1
    /\ getH(data, parent, lastOp.start) = 1
    /\ net.modulator = 0
    /\ ~sameParameters(net.net1.bp, lastOp.before.net1.bp)
    /\ sameParameters(net.net0.bp, lastOp.before.net0.bp)

\* C16: trainBatch with num other than 1 raises an error and trains neither
\* sub-network.
C16_BatchRefused ==
    (lastOp.op = "trainBatch" /\ lastOp.num # 1)
        => /\ lastOp.threw # "none"
           /\ net.net0 = lastOp.before.net0
           /\ net.net1 = lastOp.before.net1

(***************************************************************************)
(* Specification of the factory: makeNet(t,layercount,layers) is called    *)
(* with any value of t, one of the four variants or not.  With another     *)
(* value the switch is left by its default case and the function ends      *)
(* without a return statement and without a throw: the call either comes   *)
(* back with a pointer nobody set or stops the program there.              *)
(***************************************************************************)
BadTypes == {0, PLAIN - 1, UESMANN + 1}

InitFactory ==
    /\ NetIdle
    /\ lastOp = [op |-> "none"]
    /\ data = <<>>
    /\ parent = NoSet
    /\ child = NoSet

MakeNet ==
    \E t \in NetTypes \cup BadTypes : \E layers \in LayerConfigs : \E junk \in JunkVals :
    \E fallOff \in {"returned", "trapped"} :
        LET n == makeNet(t, Len(layers), layers, junk)
        IN /\ net' = IF n = Garbage /\ fallOff = "trapped" THEN NoNet ELSE n
           /\ lastOp' = [op |-> "makeNet", t |-> t, layers |-> layers, threw |-> "none",
                         ended |-> IF n = Garbage THEN fallOff ELSE "returned"]
           /\ UNCHANGED <<fresh, buf, buf2, file, loaded>>
           /\ UNCHANGED <<data, parent, child, params, sgd>>

NextFactory == MakeNet

SpecFactory == InitFactory /\ [][NextFactory]_vars

\* C18: makeNet with a value that is none of PLAIN, OUTPUTBLENDING, HINPUT and
\* UESMANN raises an error and returns no network; with each of the four it
\* returns a network of that variant whose type tag is the value asked for.
C18_MakeNetChecksType ==
    lastOp.op = "makeNet"
        => IF lastOp.t \in NetTypes
           THEN /\ lastOp.threw = "none"
                /\ lastOp.ended = "returned"
                /\ net.type = lastOp.t
                /\ getLayerCount(net) = Len(lastOp.layers)
           ELSE lastOp.threw # "none"

(***************************************************************************)
(* Net::test.  The set is TestExampleSet: TestCount examples of TestInputs *)
(* inputs and TestOutputs outputs, input j of example i being i*10+j,      *)
(* output j being i*20+j and h being i*1000.  Outputs are counted in the   *)
(* units of the network's outputs, so the output i*20+j is One*(i*20+j).   *)
(* The quotient test returns is kept as numerator and denominator.         *)
(***************************************************************************)
TestCount == 10

TestInputs == 5

TestOutputs == 2

TestExampleSet ==
    [i \in 1..TestCount |->
        [ins |-> [j \in 1..TestInputs |-> (i - 1) * 10 + (j - 1)],
         outs |-> [j \in 1..TestOutputs |-> One * ((i - 1) * 20 + (j - 1))],
         h |-> (i - 1) * 1000]]

\* HInputNet::setInputs: the caller's values, then the modulator
HInput_setInputs(outputs, modulator, d) ==
    [outputs EXCEPT ![1] = [k \in 1..Len(@) |-> IF k < Len(@) THEN d[k] ELSE modulator]]

\* OutputBlendingNet::update, the blend: h*o1[i] + (1.0-h)*o0[i]
OB_interpolate(h, o0, o1, count) == [i \in 1..count |-> h * o1[i] + (1 - h) * o0[i]]

\* setH(h) and run(in) on a running network of any variant
run(n, in, h) ==
    CASE n.type = PLAIN -> BPNet_run(n, in)
      [] n.type = UESMANN -> UESNet_run(n, in, h)
      [] n.type = HINPUT ->
            [n EXCEPT !.modulator = h,
                      !.outputs = BPNet_update(n.bp, HInput_setInputs(n.outputs, h, in))]
      [] OTHER ->
            LET n0 == BPNet_run(n.net0, in)
                n1 == BPNet_run(n.net1, in)
            IN [n EXCEPT !.modulator = h, !.net0 = n0, !.net1 = n1,
                         !.interpolatedOutputs =
                             OB_interpolate(h, n0.outputs[n0.bp.numLayers],
                                            n1.outputs[n1.bp.numLayers],
                                            getOutputCount(n))]

\* getOutputs()
getNetOutputs(n) ==
    IF n.type = OUTPUTBLENDING THEN n.interpolatedOutputs ELSE n.outputs[n.bp.numLayers]

RECURSIVE squares(_, _, _)
\* the sum over j of d*d, d = netout[j]-exout[j], from output j on
squares(netout, exout, j) ==
    IF j >= Len(exout) THEN 0
    ELSE (netout[j + 1] - exout[j + 1]) * (netout[j + 1] - exout[j + 1])
             + squares(netout, exout, j + 1)

RECURSIVE testLoop(_, _, _, _, _, _)
\* the loop of Net::test from i on; r holds the network, mseSum and the outputs seen
testLoop(r, d, s, start, num, i) ==
    IF i >= num THEN r
    ELSE LET idx == start + i
             n1 == run(r.n, getInputs(d, s, idx), getH(d, s, idx))
             netout == getNetOutputs(n1)
         IN testLoop([n |-> n1,
                      mseSum |-> r.mseSum + squares(netout, getOutputs(d, s, idx), 0),
                      netouts |-> Append(r.netouts, netout)],
                     d, s, start, num, i + 1)

testDenominatorNoOutputs(d, s, num) == num

\* num * examples.getOutputCount()
testDenominator(d, s, num) == num * Len(getOutputs(d, s, 0))

\* Net::test(examples,start,num)
test(n, d, s, start, num) ==
    LET num1 == IF num < 0 THEN s.ct - start ELSE num
        r == testLoop([n |-> n, mseSum |-> 0, netouts |-> <<>>], d, s, start, num1, 0)
    IN [n |-> r.n, netouts |-> r.netouts, mseSum |-> r.mseSum,
        denominator |-> testDenominator(d, s, num1)]

(***************************************************************************)
(* Specification of test on a zeroed network: a network of any variant     *)
(* with one hidden layer is made for the set, zeroed by loading a block of *)
(* zeros, and tested once on any range of the set (test sets the inputs    *)
(* and runs the network for every example, so it reads nothing an earlier  *)
(* test left behind).                                                      *)
(***************************************************************************)
MaxHidden == 2

InitTest ==
    \E t \in NetTypes : \E hnodes \in 1..MaxHidden : \E junk \in JunkVals :
        LET layers == <<TestInputs, hnodes, TestOutputs>>
            size == getDataSize(makeNet(t, 3, layers, junk))
        IN /\ net = RunningNet(t, 3, layers, [p \in 1..size |-> 0], junk)
           /\ data = TestExampleSet
           /\ parent = ExampleSet(TestCount, 2)
           /\ lastOp = [op |-> "zero"]
           /\ fresh = NoNet
           /\ buf = NoBuf
           /\ buf2 = NoBuf
           /\ file = NoBuf
           /\ loaded = NoNet
           /\ child = NoSet
           /\ params = NoParams
           /\ sgd = NoSGD

Test ==
    /\ lastOp.op = "zero"
    /\ \E start \in 0..(parent.ct - 1) : \E num \in {-1} \cup 1..(parent.ct - start) :
           LET r == test(net, data, parent, start, num)
           IN /\ net' = r.n
              /\ lastOp' = [op |-> "test", start |-> start, num |-> num,
                            netouts |-> r.netouts, mseSum |-> r.mseSum,
                            denominator |-> r.denominator]
              /\ UNCHANGED <<fresh, buf, buf2, file, loaded>>
              /\ UNCHANGED <<data, parent, child, params, sgd>>

NextTest == Test

SpecTest == InitTest /\ [][NextTest]_vars

RECURSIVE halfErrors(_, _, _, _)
\* the sum over examples idx..last and their outputs of (0.5 - target)^2
halfErrors(d, s, idx, last) ==
    IF idx > last THEN 0
    ELSE squares([j \in 1..Len(getOutputs(d, s, idx)) |-> Half], getOutputs(d, s, idx), 0)
             + halfErrors(d, s, idx + 1, last)

\* C19: a network whose weights and biases are all zero gives 0.5 at every
\* output for every example, and test(examples, start, num) is the sum over
\* the num examples and all outputs of (0.5 - target)^2 divided by num times
\* the output count; for the whole of the 10-example, 2-output set with
\* target j of example i equal to i*20+j that is 11400.25 = 45601/4.
C19_ZeroNetTest ==
    lastOp.op = "test"
        => LET n == IF lastOp.num < 0 THEN parent.ct - lastOp.start ELSE lastOp.num
           IN /\ Len(lastOp.netouts) = n
              /\ \A i \in 1..n : \A j \in 1..TestOutputs : lastOp.netouts[i][j] = Half
              /\ lastOp.mseSum
                    = halfErrors(data, parent, lastOp.start, lastOp.start + n - 1)
              /\ lastOp.denominator = n * TestOutputs
              /\ (lastOp.start = 0 /\ n = 10 /\ TestOutputs = 2)
                    => 4 * lastOp.mseSum = 45601 * lastOp.denominator * One * One

\* the whole set has been tested on a zeroed output-blending network
C19_Witness ==
    /\ lastOp.op = "test"
    /\ lastOp.start = 0
    /\ lastOp.num = -1
    /\ lastOp.denominator = 20
    /\ net.type = OUTPUTBLENDING
    /\ 4 * lastOp.mseSum = 45601 * 20 * One * One

(***************************************************************************)
(* The order of presentation in trainSGD.  The PRNG of a network is its    *)
(* seed and the number of values drawn since it was seeded; the k-th value *)
(* lrand48_r draws from a stream seeded with seed is lrand48(seed, k).     *)
(* trainSGD is followed here as far as the draws and the order of the      *)
(* examples go: setSeed, the draws of initWeights, the shuffles of the     *)
(* training examples and of the cross-validation examples, and the         *)
(* countdown to each cross-validation.                                     *)
(***************************************************************************)
\* Net::setSeed
setSeed(seed) == [seed |-> seed, pos |-> 0]

lrand48(seed, k) == 5 * (seed + 1) + 3 * k + ((k * k) % 7)

\* the draws of one shuffle of nblocks blocks: for(i=nblocks-1;i>=1;i--) j = lr%(i+1)
seedDraws(rd, nblocks) ==
    [i \in 1..(nblocks - 1) |-> lrand48(rd.seed, rd.pos + (nblocks - 1 - i)) % (i + 1)]

\* the PRNG after n more draws
drawn(rd, n) == [rd EXCEPT !.pos = @ + (IF n > 0 THEN n ELSE 0)]

RECURSIVE sgdOrderLoop(_, _, _, _)
\* the loop of trainSGD from iteration i on
sgdOrderLoop(d, p, st, i) ==
    IF i >= p.iterations THEN st
    ELSE LET exampleIndex == i % st.nExamples
             head == [st.examples EXCEPT !.ct = st.nExamples]
             nb == numBlocks(head, p.shuffleMode)
             ex1 == IF exampleIndex = 0
                    THEN shuffleN(d, st.examples, p.shuffleMode, st.nExamples,
                                  seedDraws(st.rd, nb))
                    ELSE st.examples
             rd1 == IF exampleIndex = 0 THEN drawn(st.rd, nb - 1) ELSE st.rd
             fires == st.nCV # 0 /\ st.cvCountdown - 1 = 0
             cvSlice1 == IF fires THEN (st.cvSlice + 1) % p.nSlices ELSE st.cvSlice
             cvsh == fires /\ cvSlice1 = 0 /\ p.cvShuffle
             nbcv == numBlocks(st.cvExamples, p.shuffleMode)
         IN sgdOrderLoop(d, p,
                [st EXCEPT
                    !.examples = ex1,
                    !.rd = IF cvsh THEN drawn(rd1, nbcv - 1) ELSE rd1,
                    !.cvExamples = IF cvsh
                                   THEN shuffle(d, @, p.shuffleMode, seedDraws(rd1, nbcv))
                                   ELSE @,
                    !.cvCountdown = IF st.nCV = 0 THEN @
                                    ELSE IF fires THEN p.cvInterval ELSE @ - 1,
                    !.cvSlice = cvSlice1,
                    !.presented = Append(@, ex1.examples[exampleIndex + 1]),
                    !.reshuffled = IF exampleIndex = 0 THEN Append(@, i) ELSE @,
                    !.crossValidated = IF fires THEN Append(@, <<i, st.cvSlice>>) ELSE @],
                i + 1)

\* trainSGD(examples,params) on a network with layers SGDLayers: the set and
\* the PRNG it leaves, and the order of what it did
sgdOrder(d, s, p) ==
    LET count == s.ct
        nCV == p.nSlices * p.nPerSlice
        chk == trainSGDChecks(p, count)
        rd0 == drawn(setSeed(p.seed),
                     drawsBefore(init(Len(SGDLayers), SGDLayers, 0), Len(SGDLayers)))
        start == IF nCV # 0 THEN count - nCV ELSE 0
        length == IF nCV # 0 THEN nCV ELSE 1
        none == [threw |-> chk, presented |-> <<>>, reshuffled |-> <<>>,
                 crossValidated |-> <<>>]
    IN IF chk # "none"
       THEN [examples |-> s, rd |-> setSeed(p.seed), order |-> none]
       ELSE IF SubsetOutOfRange(s, start, length)
       THEN [examples |-> s, rd |-> rd0, order |-> [none EXCEPT !.threw = "out_of_range"]]
       ELSE LET st == sgdOrderLoop(d, p,
                          [examples |-> s, cvExamples |-> Subset(s, start, length),
                           rd |-> rd0, nCV |-> nCV, nExamples |-> count - nCV,
                           cvCountdown |-> p.cvInterval, cvSlice |-> 0,
                           presented |-> <<>>, reshuffled |-> <<>>,
                           crossValidated |-> <<>>], 0)
            IN [examples |-> st.examples, rd |-> st.rd,
                order |-> [threw |-> "none", presented |-> st.presented,
                           reshuffled |-> st.reshuffled,
                           crossValidated |-> st.crossValidated]]

(***************************************************************************)
(* Specification of repeated training: a set of examples and a network are *)
(* built and the parameters fixed, all but the seed; then trainSGD is      *)
(* called any number of times, each time with any seed, on the set as the  *)
(* last call left it or on a set newly built with the same examples, and   *)
(* on the network as the last call left it or on a new one.  The order of  *)
(* the first call made with each seed is kept for comparison.              *)
(***************************************************************************)
NoOrder == [threw |-> "never called"]

SeedParams ==
    {[crossValidationManual(SGDParams(iters), slices, nperslice, interval)
        EXCEPT !.cvShuffle = cvs, !.shuffleMode = mode] :
        iters \in 1..(2 * MaxIter), slices \in 0..MaxSlices, nperslice \in 0..MaxPerSlice,
        interval \in 1..MaxInterval, cvs \in BOOLEAN, mode \in {"STRIDE", "NONE"}}

InitSeed ==
    \E count \in 1..(MaxExamples + 1) : \E p \in SeedParams :
        /\ data = Filled(count, [i \in 1..count |-> 0])
        /\ parent = ExampleSet(count, 1)
        /\ params = p
        /\ net = [type |-> PLAIN, rd |-> setSeed(0)]
        /\ lastOp = [op |-> "construct", first |-> [s \in 0..MaxSeed |-> NoOrder]]
        /\ child = NoSet
        /\ fresh = NoNet
        /\ buf = NoBuf
        /\ buf2 = NoBuf
        /\ file = NoBuf
        /\ loaded = NoNet
        /\ sgd = NoSGD

TrainSeeded ==
    \E seed \in 0..MaxSeed : \E newSet \in BOOLEAN : \E newNet \in BOOLEAN :
        LET p == [params EXCEPT !.seed = seed]
            s == IF newSet THEN ExampleSet(parent.ct, 1) ELSE parent
            r == sgdOrder(data, s, p)
        IN /\ params' = p
           /\ parent' = r.examples
           /\ net' = [net EXCEPT !.rd = r.rd]
           /\ lastOp' = [op |-> "trainSGD", seed |-> seed, newSet |-> newSet,
                         newNet |-> newNet, order |-> r.order,
                         first |-> IF lastOp.first[seed] = NoOrder
                                   THEN [lastOp.first EXCEPT ![seed] = r.order]
                                   ELSE lastOp.first]
           /\ UNCHANGED <<data, child, fresh, buf, buf2, file, loaded, sgd>>

NextSeed == TrainSeeded

SpecSeed == InitSeed /\ [][NextSeed]_vars

\* C20: with the parameters and the examples fixed, the examples presented
\* to trainBatch in order, the iterations at which the training examples are
\* reshuffled and the iterations and slices at which cross-validation is done
\* depend on the seed only: a call of trainSGD gives the same as the first call
\* made with its seed, also on the same ExampleSet object and on the same
\* network object.
C20_SeedFixesOrder ==
    lastOp.op = "trainSGD" => lastOp.order = lastOp.first[lastOp.seed]

(***************************************************************************)
(* The loop of trainSGD, one iteration at a time, with what each iteration *)
(* did kept beside the locals: the example handed to trainBatch, the error *)
(* trainBatch returned, whether a snapshot was taken and by which branch,  *)
(* and the slice handed to test.                                           *)
(* test changes only the outputs and the modulator of the network, which   *)
(* the parameter buffers do not hold; the error it returns goes to the log *)
(* only.                                                                   *)
(***************************************************************************)
\* ExampleSet cvExamples(examples,nCV?examples.getCount()-nCV:0,nCV?nCV:1)
cvStartAlwaysZero(count, nCV) == 0

cvStart(count, nCV) == IF nCV # 0 THEN count - nCV ELSE 0

cvLength(nCV) == IF nCV # 0 THEN nCV ELSE 1

\* if(nCV && !--cvCountdown): the countdown after the decrement, which is
\* made only when nCV is not zero
cvCountdownNext(nCV, cvCountdown) == IF nCV # 0 THEN cvCountdown - 1 ELSE cvCountdown

\* the examples Net::test(examples,start,num) reads: if(num<0)num=examples.getCount()-start
testRange(s, start, num) ==
    LET num1 == IF num < 0 THEN s.ct - start ELSE num
    IN {start + i : i \in 0..(num1 - 1)}

\* the examples BPNet::trainBatch(ex,start,num,eta) reads: for(int j=0;j<num;j++)
\* with the example at start+j
trainBatchReads(s, start, num) == {s.examples[start + j + 1] : j \in 0..(num - 1)}

\* the locals of trainSGD at the head of its loop
trainSGDLocals(p, count) ==
    LET nCV == p.nSlices * p.nPerSlice
    IN [pc |-> "loop", threw |-> "none", nCV |-> nCV, nExamples |-> count - nCV,
        i |-> 0, minError |-> -1, cvCountdown |-> p.cvInterval, cvSlice |-> 0]

\* the body of the loop of trainSGD for iteration st.i: the examples, the
\* cross-validation examples, the network, the parameters and the locals it
\* leaves, and what it did
trainSGDBody(d, examples, cvExamples, n, p, st, draws, cvDraws, trainingError) ==
    LET exampleIndex == CMod(st.i, st.nExamples)
        epoch == exampleIndex = 0
        examples1 == IF epoch
                     THEN shuffleN(d, examples, p.shuffleMode, st.nExamples, draws)
                     ELSE examples
        n1 == trainBatch(n, 0, 1)
        k1 == IF ~p.selectBestWithCV THEN KeepBest(p, n1, st.minError, trainingError)
              ELSE NoBest(p, st.minError)
        p1 == [p EXCEPT !.bestNetBuffer = k1.bestNetBuffer]
        cd == cvCountdownNext(st.nCV, st.cvCountdown)
        cv == st.nCV # 0 /\ cd = 0
        k2 == IF cv /\ p.selectBestWithCV
              THEN KeepBest(p1, n1, k1.minError, trainingError)
              ELSE NoBest(p1, k1.minError)
        cvSlice1 == IF cv THEN CMod(st.cvSlice + 1, p.nSlices) ELSE st.cvSlice
        reshuffle == cv /\ cvSlice1 = 0 /\ p.cvShuffle
    IN [examples |-> examples1,
        cvExamples |-> IF reshuffle THEN shuffle(d, cvExamples, p.shuffleMode, cvDraws)
                       ELSE cvExamples,
        n |-> n1,
        p |-> [p EXCEPT !.bestNetBuffer = k2.bestNetBuffer],
        st |-> [st EXCEPT !.i = @ + 1,
                          !.minError = k2.minError,
                          !.cvCountdown = IF cv THEN p.cvInterval ELSE cd,
                          !.cvSlice = cvSlice1],
        did |-> [i |-> st.i,
                 exampleIndex |-> exampleIndex,
                 presented |-> trainBatchReads(examples1, exampleIndex, 1),
                 reshuffled |-> epoch,
                 trainingError |-> trainingError,
                 savedByTraining |-> k1.saved,
                 savedByCV |-> k2.saved,
                 cvEvent |-> cv,
                 slice |-> st.cvSlice,
                 tested |-> IF cv THEN testRange(cvExamples, st.cvSlice * p.nPerSlice,
                                                 p.nPerSlice)
                            ELSE {},
                 cvReshuffled |-> reshuffle]]

(***************************************************************************)
(* Specification of one call of trainSGD followed iteration by iteration:  *)
(* a set of EpochCount examples or one less and a plain network are built, *)
(* the parameters are set with crossValidationManual and the other setters *)
(* to any values the setters take, negative and zero counts and intervals  *)
(* among them, and trainSGD is called once.  trainBatch returns any error  *)
(* 0..MaxErr.  A test that reads outside cvExamples is undefined: it gives *)
(* any error (which only the log receives) or ends the program.            *)
(***************************************************************************)
EpochCount == MaxExamples + 1

EpochIters == MaxIter + 1

\* the slice counts and slice sizes given to crossValidationManual: every
\* sign of each, and two slices to cycle through
EpochSlices == (-2)..2

EpochPerSlice == (-1)..1

EpochParams ==
    {LET p == [crossValidationManual(SGDParams(EpochIters), slices, nperslice, interval)
                   EXCEPT !.selectBestWithCV = sel, !.cvShuffle = cvs]
     IN IF sb THEN storeBest(p) ELSE p :
        slices \in EpochSlices, nperslice \in EpochPerSlice,
        interval \in (-1)..MaxInterval,
        sel \in BOOLEAN, cvs \in BOOLEAN, sb \in BOOLEAN}

InitEpoch ==
    \E count \in (EpochCount - 1)..EpochCount : \E p \in EpochParams :
    \E junk \in {CHOOSE v \in JunkVals : TRUE} :
        /\ data = Filled(count, [i \in 1..count |-> 0])
        /\ parent = ExampleSet(count, 1)
        /\ child = NoSet
        /\ params = p
        /\ net = makeNet(PLAIN, Len(SGDLayers), SGDLayers, junk)
        /\ sgd = [pc |-> "idle"]
        /\ lastOp = [op |-> "construct"]
        /\ fresh = NoNet
        /\ buf = NoBuf
        /\ buf2 = NoBuf
        /\ file = NoBuf
        /\ loaded = NoNet

\* trainSGD from its entry to the head of the loop, or to the exception
EpochEnter ==
    /\ sgd.pc = "idle"
    /\ LET count == parent.ct
           st == trainSGDLocals(params, count)
           chk == trainSGDChecks(params, count)
           start == cvStart(count, st.nCV)
           length == cvLength(st.nCV)
       IN /\ net' = IF chk = "none" THEN initWeights(net, params.seed) ELSE net
          /\ IF chk # "none"
             THEN /\ child' = NoSet
                  /\ sgd' = [st EXCEPT !.pc = "threw", !.threw = chk]
             ELSE IF SubsetOutOfRange(parent, start, length)
             THEN /\ child' = NoSet
                  /\ sgd' = [st EXCEPT !.pc = "threw", !.threw = "out_of_range"]
             ELSE /\ child' = Subset(parent, start, length)
                  /\ sgd' = st
          /\ lastOp' = [op |-> "enter", events |-> 0, smallest |-> -1,
                        training |-> {parent.examples[q] : q \in 1..st.nExamples
                                                                 \cap 1..count},
                        held |-> IF st.nCV > 0
                                 THEN {parent.examples[q] : q \in (st.nExamples + 1)..count
                                                                  \cap 1..count}
                                 ELSE {}]
    /\ UNCHANGED <<data, parent, params, fresh, buf, buf2, file, loaded>>

\* one iteration of the loop of trainSGD
EpochIterate ==
    /\ sgd.pc = "loop"
    /\ sgd.i < params.iterations
    /\ LET epoch == CMod(sgd.i, sgd.nExamples) = 0
           training == [parent EXCEPT !.ct = sgd.nExamples]
       IN \E draws \in IF epoch THEN Draws(numBlocks(training, params.shuffleMode))
                       ELSE {<<>>} :
          \E cvDraws \in Draws(numBlocks(child, params.shuffleMode)) :
          \E trainingError \in 0..MaxErr : \E fault \in BOOLEAN :
             LET r == trainSGDBody(data, parent, child, net, params, sgd,
                                   draws, cvDraws, trainingError)
             IN /\ fault => ~(r.did.tested \subseteq 0..(child.ct - 1))
                \* the draws for cvExamples are made only when it is reshuffled
                /\ r.did.cvReshuffled \/ cvDraws = [q \in 1..Len(cvDraws) |-> 0]
                /\ parent' = r.examples
                /\ child' = r.cvExamples
                /\ net' = r.n
                /\ params' = r.p
                /\ sgd' = IF fault THEN [r.st EXCEPT !.pc = "fault"] ELSE r.st
                /\ lastOp' = [op |-> "iterate", did |-> r.did,
                              events |-> lastOp.events + (IF r.did.cvEvent THEN 1 ELSE 0),
                              smallest |-> IF lastOp.smallest < 0
                                              \/ trainingError < lastOp.smallest
                                           THEN trainingError ELSE lastOp.smallest,
                              training |-> lastOp.training, held |-> lastOp.held]
    /\ UNCHANGED <<data, fresh, buf, buf2, file, loaded>>

\* after the loop: if(params.bestNetBuffer) load(params.bestNetBuffer); return
EpochFinish ==
    /\ sgd.pc = "loop"
    /\ sgd.i >= params.iterations
    /\ net' = IF params.bestNetBuffer # NULL THEN load(net, params.bestNetBuffer, 0)
              ELSE net
    /\ sgd' = [sgd EXCEPT !.pc = "returned"]
    /\ lastOp' = [lastOp EXCEPT !.op = "return"]
    /\ UNCHANGED <<data, parent, child, params, fresh, buf, buf2, file, loaded>>

NextEpoch == EpochEnter \/ EpochIterate \/ EpochFinish

SpecEpoch == InitEpoch /\ [][NextEpoch]_vars

(***************************************************************************)
(* Claims about the loop of trainSGD.                                      *)
(***************************************************************************)
\* the handles at the places lo..hi of an array of handles
HandlesAt(arr, lo, hi) == {arr[q] : q \in lo..hi}

\* a step of the model that is an iteration of the loop
IsIteration == sgd.pc = "loop" /\ lastOp'.op = "iterate"

MultipleOf(x, interval) == interval # 0 /\ CMod(x, interval) = 0

\* C23: with nCV > 0, cross-validation is done at the iterations i where
\* i + 1 is a multiple of cvInterval, whatever cvInterval the parameters
\* hold; the k-th event (k from 0) tests slice k mod nSlices, the positions
\* from slice*nPerSlice up to slice*nPerSlice + nPerSlice, all of them inside
\* cvExamples; and cvExamples is reshuffled exactly at an event after which
\* the slice index is 0 again, if cvShuffle is set.
C23_CrossValidationCadence ==
    (lastOp.op = "iterate" /\ sgd.nCV > 0)
        => LET did == lastOp.did
               from == did.slice * params.nPerSlice
           IN /\ did.cvEvent <=> MultipleOf(did.i + 1, params.cvInterval)
              /\ did.cvEvent =>
                    /\ did.slice = CMod(lastOp.events - 1, params.nSlices)
                    /\ did.tested = from..(from + params.nPerSlice - 1)
                    /\ did.tested \subseteq 0..(sgd.nCV - 1)
                    /\ did.tested # {}
              /\ did.cvReshuffled <=> (did.cvEvent /\ sgd.cvSlice = 0 /\ params.cvShuffle)
              /\ sgd.pc # "fault"

\* the same for positive slice counts, slice sizes and intervals
C23_PositiveParameters ==
    (params.nSlices > 0 /\ params.nPerSlice > 0 /\ params.cvInterval > 0)
        => C23_CrossValidationCadence

\* C24: with selectBestWithCV false, after every iteration minError is the
\* smallest error trainBatch has returned in this call; with storeBestNet set
\* a snapshot of the network is saved at the first iteration and at every
\* iteration whose training error is strictly below the minimum before it,
\* at no other iteration, and never by the cross-validation branch; without
\* a snapshot the buffer is as it was.
C24_BestByTrainingError ==
    [][(IsIteration /\ ~params.selectBestWithCV)
        => LET did == lastOp'.did
               improved == sgd.i = 0 \/ did.trainingError < sgd.minError
           IN /\ sgd'.minError = lastOp'.smallest
              /\ did.savedByTraining <=> (params.storeBestNet /\ improved)
              /\ ~did.savedByCV
              /\ did.savedByTraining
                    => params'.bestNetBuffer = save(net', Alloc(getDataSize(net')), 0)
              /\ ~did.savedByTraining => params'.bestNetBuffer = params.bestNetBuffer
      ]_vars

\* after the first iteration a cross-validation event falls on an iteration
\* whose training error is below the minimum, and the snapshot is taken
C24_Witness ==
    /\ lastOp.op = "iterate"
    /\ ~params.selectBestWithCV
    /\ params.storeBestNet
    /\ lastOp.did.i > 0
    /\ lastOp.did.cvEvent
    /\ lastOp.did.savedByTraining
    /\ sgd.minError = lastOp.did.trainingError

(***************************************************************************)
(* Specification of the error output blending returns: a network with one  *)
(* input and one output is built and loaded with a parameter block, over a *)
(* set of two examples, the first with h = 0 and the second with h = 1;    *)
(* then trainBatch is called on single examples in any order, up to        *)
(* MaxPresent times.  The error the sub-network returned at the latest     *)
(* presentation of each modulator level is kept, as a set that is empty    *)
(* before the first.                                                       *)
(***************************************************************************)
MaxPresent == MaxTrain + 2

InitOBError ==
    \E junk \in JunkVals : \E ins \in Vectors(1, {0, 1}) : \E outs \in Vectors(1, {0, One}) :
    \E block \in ParamBlocks(2 * BPNet_getDataSize(init(2, <<1, 1>>, junk))) :
        /\ net = RunningNet(OUTPUTBLENDING, 2, <<1, 1>>, block, junk)
        /\ data = [i \in 1..2 |-> [ins |-> ins, outs |-> outs, h |-> i - 1]]
        /\ parent = setHRange(ExampleSet(2, 2), 0, 1)
        /\ lastOp = [op |-> "load", trained |-> 0, latest |-> <<{}, {}>>]
        /\ fresh = NoNet
        /\ buf = NoBuf
        /\ buf2 = NoBuf
        /\ file = NoBuf
        /\ loaded = NoNet
        /\ child = NoSet
        /\ params = NoParams
        /\ sgd = NoSGD

\* trainBatch(ex,start,1,eta)
OBPresent ==
    /\ lastOp.trained < MaxPresent
    /\ \E start \in 0..(parent.ct - 1) : \E eta \in 1..2 :
        LET r == OB_trainBatch(net, data, parent, start, 1, eta)
            which == OB_select(net, data, parent, start)
        IN /\ net' = r.n
           /\ lastOp' = [op |-> "trainBatch", start |-> start, eta |-> eta,
                         trained |-> lastOp.trained + 1, rv |-> r.rv,
                         order |-> IF lastOp.op = "load" THEN <<which>>
                                   ELSE Append(lastOp.order, which),
                         latest |-> [lastOp.latest EXCEPT ![which + 1] = {r.e}]]
    /\ UNCHANGED <<fresh, buf, buf2, file, loaded>>
    /\ UNCHANGED <<data, parent, child, params, sgd>>

NextOBError == OBPresent

SpecOBError == InitOBError /\ [][NextOBError]_vars

\* C25: once an example with h < 0.5 and an example with h >= 0.5 have been
\* presented, in whatever order, the value trainBatch returns is the mean of
\* the training error of the latest presentation with h < 0.5 and the
\* training error of the latest presentation with h >= 0.5.
C25_MeanOfLatest ==
    lastOp.op = "trainBatch"
        => \A e0 \in lastOp.latest[1] : \A e1 \in lastOp.latest[2] :
              2 * lastOp.rv[1] = (e0 + e1) * lastOp.rv[2]

\* the same for the first presentation of h >= 0.5 that follows a first one
\* of h < 0.5
C25_FirstPair ==
    (lastOp.op = "trainBatch" /\ lastOp.order = <<0, 1>>)
        => \A e0 \in lastOp.latest[1] : \A e1 \in lastOp.latest[2] :
              2 * lastOp.rv[1] = (e0 + e1) * lastOp.rv[2]

(***************************************************************************)
(* Claims about the backward pass.                                         *)
(***************************************************************************)
\* the errors of the hidden layers are those of the formula, computed from
\* the errors the layer above holds for this example: bp holds the weights
\* the backward pass used
HiddenErrorsFollow(bp, hfactor, outputs, errors) ==
    \A l \in 1..(bp.numLayers - 2) : \A j \in 0..(bp.layerSizes[l + 1] - 1) :
        errors[l + 1][j + 1]
            = outputs[l + 1][j + 1] * (One - outputs[l + 1][j + 1])
                * backSum(bp, errors, l, j, 0) * hfactor

\* C26: after the backward pass for one example, in a network of three or
\* more layers, the error of every node j of every hidden layer l is
\* output_j * (1 - output_j) * sum_i(error_{l+1,i} * weight_{l+1,i,j}), times
\* (h+1) in the UESMANN network, where error_{l+1} is the error of layer l+1
\* for this same example: nothing left by an earlier example or by
\* construction goes into it.
C26_HiddenErrorsOfThisExample ==
    (lastOp.op = "train" /\ net.bp.numLayers >= 3)
        => /\ HiddenErrorsFollow(lastOp.beforePlain, 1, fresh.outputs, fresh.errors)
           /\ HiddenErrorsFollow(lastOp.before, lastOp.h + 1, net.outputs, net.errors)

\* the same for the networks of exactly three layers
C26_OneHiddenLayer ==
    (lastOp.op = "train" /\ net.bp.numLayers = 3)
        => /\ HiddenErrorsFollow(lastOp.beforePlain, 1, fresh.outputs, fresh.errors)
           /\ HiddenErrorsFollow(lastOp.before, lastOp.h + 1, net.outputs, net.errors)

(***************************************************************************)
(* Specification of alternate, one pass of its outer loop at a time: a set *)
(* is built and filled as in the specification of shuffle, shuffle in mode *)
(* ALTERNATE makes its Fisher-Yates pass and enters alternate, and each    *)
(* step is one value of i: the test of arr[i], the scan for a match from i *)
(* on, and the swap or the return.  The positions of arr that the pass has *)
(* read or written are kept.                                               *)
(***************************************************************************)
\* f(arr[q])%cycle for the handle at position q
bucketAt(d, s, q) == CMod(bucket(d, s, s.examples[q + 1]), s.numHLevels)

\* the positions the scan for(j=i;;j++) reads: up to the match, or up to the
\* last item when if(j>=nitems)return is taken
altScanReads(i, j, nitems) == IF j < 0 THEN i..(nitems - 1) ELSE i..j

InitAlternate == InitShuffle

AltEnter ==
    /\ lastOp.op = "construct"
    /\ \E draws \in Draws(numBlocks(parent, "ALTERNATE")) :
        LET blockSize == blockSizeOf(parent, "ALTERNATE")
            shuffled == fisherYates(parent.examples, CDiv(parent.ct, blockSize) - 1,
                                    blockSize, draws)
        IN /\ parent' = [parent EXCEPT !.examples = shuffled]
           /\ lastOp' = [op |-> "alternate", input |-> shuffled]
           /\ sgd' = [pc |-> "alternate", i |-> 0, nitems |-> parent.ct,
                      cycle |-> parent.numHLevels, touched |-> {}, stopped |-> FALSE]
    /\ UNCHANGED <<data, child, params>>
    /\ UNCHANGED netVars

\* the body of for(int i=0;i<nitems;i++) for one i
AltIterate ==
    /\ sgd.pc = "alternate"
    /\ sgd.i < sgd.nitems
    /\ LET f == [e \in 1..Len(data) |-> bucket(data, parent, e)]
           arr == parent.examples
       IN IF CMod(f[arr[sgd.i + 1]], sgd.cycle) # sgd.i % sgd.cycle
          THEN LET j == altScan(arr, sgd.i, sgd.i, sgd.nitems, sgd.cycle, f)
                   read == sgd.touched \cup altScanReads(sgd.i, j, sgd.nitems)
               IN IF j < 0
                  THEN /\ parent' = parent
                       /\ sgd' = [sgd EXCEPT !.pc = "returned", !.stopped = TRUE,
                                             !.touched = read]
                  ELSE /\ parent' = [parent EXCEPT !.examples = swap(arr, sgd.i, j)]
                       /\ sgd' = [sgd EXCEPT !.i = @ + 1, !.touched = read]
          ELSE /\ parent' = parent
               /\ sgd' = [sgd EXCEPT !.i = @ + 1, !.touched = @ \cup {sgd.i}]
    /\ UNCHANGED <<data, child, params, lastOp>>
    /\ UNCHANGED netVars

\* the loop ends with i = nitems
AltExit ==
    /\ sgd.pc = "alternate"
    /\ sgd.i >= sgd.nitems
    /\ sgd' = [sgd EXCEPT !.pc = "returned"]
    /\ UNCHANGED <<data, parent, child, params, lastOp>>
    /\ UNCHANGED netVars

NextAlternate == AltEnter \/ AltIterate \/ AltExit

SpecAlternate == InitAlternate /\ [][NextAlternate]_vars

\* alternate is at a position i whose element has the wrong bucket, and no
\* element from i on has the bucket i mod cycle
AltNoMatch ==
    /\ sgd.pc = "alternate"
    /\ sgd.i < sgd.nitems
    /\ \A q \in sgd.i..(sgd.nitems - 1) : bucketAt(data, parent, q) # sgd.i % sgd.cycle

\* C27: when alternate reaches a position i whose element has the wrong
\* bucket and no element at a position >= i has the bucket i mod cycle, it
\* returns, without an error and without another swap: every position
\* before i has bucket = index mod cycle, the positions from i on are as
\* they were at that moment, the array is a permutation of the input, and
\* no position outside 0..nitems-1 was read or written.  What it leaves is
\* what the whole of alternate gives for the input.
C27_PartialAlternation ==
    [][AltNoMatch
        => /\ sgd'.pc = "returned"
           /\ sgd'.stopped
           /\ sgd'.i = sgd.i
           /\ parent'.examples = parent.examples
           /\ \A q \in 0..(sgd.i - 1) : bucketAt(data, parent', q) = q % sgd.cycle
           /\ IsPermutationOf(parent'.examples, lastOp.input)
           /\ sgd'.touched \subseteq 0..(sgd.nitems - 1)
           /\ parent'.examples
                 = alternate(lastOp.input, sgd.nitems, sgd.cycle,
                             [e \in 1..Len(data) |-> bucket(data, parent, e)])
      ]_vars

\* alternate has returned from a position in the middle of the array, after
\* it had made a swap, leaving two or more positions unscanned
C27_Witness ==
    /\ sgd.pc = "returned"
    /\ sgd.stopped
    /\ sgd.i >= 1
    /\ sgd.i + 2 <= sgd.nitems
    /\ parent.examples # lastOp.input

(***************************************************************************)
(* The layout of the parameter block.  The sizes are the ones the BPNet    *)
(* body holds (for the modulator-as-input network, the input layer with    *)
(* its extra node).                                                        *)
(***************************************************************************)
RECURSIVE UpperLayersSize(_, _)
\* the sum over l = from..L-1 of size_l * (1 + size_{l-1}), layers 0-based
UpperLayersSize(sizes, from) ==
    IF from >= Len(sizes) THEN 0
    ELSE sizes[from + 1] * (1 + sizes[from]) + UpperLayersSize(sizes, from + 1)

\* what one node of layer l takes in the block: its bias and, above layer 0,
\* one weight for each node of the layer below
NodeSize(sizes, l) == IF l = 0 THEN 1 ELSE 1 + sizes[l]

RECURSIVE LayerStart(_, _)
\* the number of values in the block before layer l
LayerStart(sizes, l) ==
    IF l = 0 THEN 0
    ELSE LayerStart(sizes, l - 1) + sizes[l] * NodeSize(sizes, l - 1)

\* block b holds, from offset off on, the parameters of bp: layer by layer
\* from layer 0, node by node, the bias and then the incoming weights
BlockLaidOut(bp, b, off) ==
    \A l \in 0..(bp.numLayers - 1) : \A j \in 0..(bp.layerSizes[l + 1] - 1) :
        LET at == off + LayerStart(bp.layerSizes, l) + j * NodeSize(bp.layerSizes, l)
        IN /\ at + NodeSize(bp.layerSizes, l) <= Len(b)
           /\ b[at + 1] = bp.biases[l + 1][j + 1]
           /\ l > 0 => \A k \in 0..(bp.layerSizes[l] - 1) :
                           b[at + 1 + k + 1] = getw(bp, l, j, k)

Bodies(n) == IF n.type = OUTPUTBLENDING THEN <<n.net0.bp, n.net1.bp>> ELSE <<n.bp>>

\* cell c (a place of the sequence) of weights[l] is not getw(l,j,k) for any
\* node j of layer l and node k of layer l-1
OutOfShape(bp, l, c) ==
    LET to == (c - 1) % bp.largestLayerSize
        from == (c - 1) \div bp.largestLayerSize
    IN l = 0 \/ to >= bp.layerSizes[l + 1] \/ from >= bp.layerSizes[l]

\* the buffers of bp have the sizes BPNet::init gave them
SizedAsBuilt(bp) ==
    /\ Len(bp.weights) = bp.numLayers
    /\ Len(bp.biases) = bp.numLayers
    /\ \A l \in 1..bp.numLayers :
          /\ Len(bp.weights[l]) = bp.largestLayerSize * bp.largestLayerSize
          /\ Len(bp.biases[l]) = bp.layerSizes[l]

\* every out-of-shape cell of bp holds what it holds in ref
OutOfShapeAsIn(bp, ref) ==
    \A l \in 0..(bp.numLayers - 1) : \A c \in DOMAIN bp.weights[l + 1] :
        OutOfShape(bp, l, c) => bp.weights[l + 1][c] = ref.weights[l + 1][c]

\* C29 (as amended): the square weight buffers (side = largest layer size)
\* are sized at construction and never resized.  A cell outside the real
\* shape is not initialised by construction (it holds an indeterminate
\* value, not zero); initWeights writes every cell of every buffer, the
\* cells outside the shape included (zero in layer 0, a drawn value in the
\* layers above); trainBatch and load never write a cell outside the shape.
C29_UnusedCells ==
    /\ \A b \in 1..Len(Bodies(net)) : SizedAsBuilt(Bodies(net)[b])
    /\ \E seed \in 0..MaxSeed : \E junk \in JunkVals :
          LET ref == initWeights(makeNet(net.type, Len(lastOp.layers),
                                         lastOp.layers, junk), seed)
          IN \A b \in 1..Len(Bodies(net)) :
                 OutOfShapeAsIn(Bodies(net)[b], Bodies(ref)[b])
    /\ \A b \in 1..Len(Bodies(net)) :
          LET bp == Bodies(net)[b]
          IN \A l \in 0..(bp.numLayers - 1) : \A c \in DOMAIN bp.weights[l + 1] :
                 OutOfShape(bp, l, c) =>
                     /\ bp.weights[l + 1][c] \notin JunkVals
                     /\ bp.weights[l + 1][c] = 0 <=> l = 0
    /\ fresh # NoNet =>
          \A b \in 1..Len(Bodies(fresh)) :
              LET bp == Bodies(fresh)[b]
              IN /\ SizedAsBuilt(bp)
                 /\ \A l \in 0..(bp.numLayers - 1) :
                        \A c \in DOMAIN bp.weights[l + 1] :
                            OutOfShape(bp, l, c) => bp.weights[l + 1][c] \in JunkVals

\* a plain network with cells outside the shape in every layer has been
\* trained and saved, and its block loaded into a newly built network
C29_Witness ==
    /\ lastOp.trained
    /\ fresh # NoNet
    /\ net.type = PLAIN
    /\ lastOp.layers = <<1, 2, 1>>
    /\ \E c \in DOMAIN net.bp.weights[3] : OutOfShape(net.bp, 2, c)

\* C29 as stated: every cell outside the real shape is zero, in a network
\* that has been built and whose weights have been initialised and trained,
\* and in a network that has been built and loaded.
C29_UnusedCellsZero ==
    /\ \A b \in 1..Len(Bodies(net)) :
          LET bp == Bodies(net)[b]
          IN \A l \in 0..(bp.numLayers - 1) : \A c \in DOMAIN bp.weights[l + 1] :
                 OutOfShape(bp, l, c) => bp.weights[l + 1][c] = 0
    /\ fresh # NoNet =>
          \A b \in 1..Len(Bodies(fresh)) :
              LET bp == Bodies(fresh)[b]
              IN \A l \in 0..(bp.numLayers - 1) : \A c \in DOMAIN bp.weights[l + 1] :
                     OutOfShape(bp, l, c) => bp.weights[l + 1][c] = 0

(***************************************************************************)
(* The range of the initial weights.  A double is held in units of 1/One,  *)
(* so that Half is 0.5 and One is 1.0; an int is held as itself.           *)
(***************************************************************************)
\* the conversion of a double to int: the fractional part is discarded
doubleToInt(x) == IF x >= 0 THEN x \div One ELSE 0 - ((0 - x) \div One)

\* the conversion of an int to double
intToDouble(i) == i * One

\* SGDParams::init: initrange = -1, seed = 0
SGDParamsRange == [initrange |-> -1, seed |-> 0]

\* SGDParams::setInitRange(range): initrange, an int, is assigned the double
setInitRange(p, range) == [p EXCEPT !.initrange = doubleToInt(range)]

\* SGDParams::setSeed(v)
SGDParams_setSeed(p, v) == [p EXCEPT !.seed = v]

\* the number drand48_r stores on call k after setSeed(seed), in [0,1)
drand48(seed, k) == (seed + k) % One

\* Net::drand(mn,mx) when drand48_r stores res
drandIn(mn, mx, res) == (res * (mx - mn)) \div One + mn

\* 1.0/sqrt(ct), rounded down to the unit
recipSqrt(ct) ==
    CHOOSE q \in 0..One : q * q * ct <= One * One /\ (q + 1) * (q + 1) * ct > One * One

\* the local initrange of BPNet::initWeights(initr) in layer i
layerInitRange(bp, i, initr) ==
    IF i > 0
    THEN IF initr > 0 THEN initr ELSE recipSqrt(bp.layerSizes[i])
    ELSE One \div 10

\* BPNet::initWeights(initr) with the values drawn: the draws are made in
\* the order of the loops, and layer 0 is set to zero afterwards
BPNet_initWeightsIn(bp, initr, seed) ==
    [bp EXCEPT
        !.biases = [i \in 1..bp.numLayers |-> [j \in 1..bp.layerSizes[i] |->
            IF i = 1 THEN 0
            ELSE LET r == layerInitRange(bp, i - 1, initr)
                 IN drandIn(0 - r, r, drand48(seed, drawsBefore(bp, i - 1) + j - 1))]],
        !.weights = [i \in 1..bp.numLayers |->
            [c \in 1..(bp.largestLayerSize * bp.largestLayerSize) |->
                IF i = 1 THEN 0
                ELSE LET r == layerInitRange(bp, i - 1, initr)
                     IN drandIn(0 - r, r, drand48(seed,
                            drawsBefore(bp, i - 1) + bp.layerSizes[i] + c - 1))]]]

\* initWeights(initr) of the four variants; the sub-networks of an output
\* blending network draw from their own PRNG, seeded with 0 when built
initWeightsIn(n, initr, seed) ==
    IF n.type = OUTPUTBLENDING
    THEN [n EXCEPT !.net0.bp = BPNet_initWeightsIn(@, initr, 0),
                   !.net1.bp = BPNet_initWeightsIn(@, initr, 0)]
    ELSE [n EXCEPT !.bp = BPNet_initWeightsIn(@, initr, seed)]

(***************************************************************************)
(* Specification of the initial range: a network of any variant and layer  *)
(* sizes is built; the caller builds SGDParams(eta,0), possibly gives it   *)
(* a seed and a range, and calls trainSGD on a set of one example.  With   *)
(* no iterations and no buffer for the best network, trainSGD seeds the    *)
(* PRNG, initialises the weights and tests the network.                    *)
(***************************************************************************)
\* the ranges a caller gives: -1, 0.25, 0.5, 1, 1.5 and 2
InitRanges == {0 - One, Half \div 2, Half, One, One + Half, 2 * One}

InitInitRange ==
    \E t \in NetTypes : \E layers \in LayerConfigs : \E junk \in JunkVals :
        /\ net = makeNet(t, Len(layers), layers, junk)
        /\ params = SGDParamsRange
        /\ lastOp = [op |-> "makeNet", layers |-> layers, given |-> 0 - One]
        /\ fresh = NoNet
        /\ buf = NoBuf
        /\ buf2 = NoBuf
        /\ file = NoBuf
        /\ loaded = NoNet
        /\ data = <<>>
        /\ parent = NoSet
        /\ child = NoSet
        /\ sgd = NoSGD

\* params.setSeed(v)
GiveSeed ==
    /\ lastOp.op = "makeNet"
    /\ \E v \in 0..MaxSeed : params' = SGDParams_setSeed(params, v)
    /\ lastOp' = [lastOp EXCEPT !.op = "setSeed"]
    /\ UNCHANGED <<net, fresh, buf, buf2, file, loaded, data, parent, child, sgd>>

\* params.setInitRange(range)
GiveInitRange ==
    /\ lastOp.op \in {"makeNet", "setSeed"}
    /\ \E range \in InitRanges :
          /\ params' = setInitRange(params, range)
          /\ lastOp' = [lastOp EXCEPT !.op = "setInitRange", !.given = range]
    /\ UNCHANGED <<net, fresh, buf, buf2, file, loaded, data, parent, child, sgd>>

\* net->trainSGD(examples,params)
TrainInitRange ==
    /\ lastOp.op \in {"makeNet", "setSeed", "setInitRange"}
    /\ net' = initWeightsIn(net, intToDouble(params.initrange), params.seed)
    /\ lastOp' = [lastOp EXCEPT !.op = "trainSGD"]
    /\ UNCHANGED <<params, fresh, buf, buf2, file, loaded, data, parent, child, sgd>>

NextInitRange ==
    \/ GiveSeed
    \/ GiveInitRange
    \/ TrainInitRange

SpecInitRange == InitInitRange /\ [][NextInitRange]_vars

\* every weight and bias of the layers above layer 0 lies within [-r, r]
WithinRange(bp, r) ==
    \A i \in 2..bp.numLayers :
        /\ \A j \in DOMAIN bp.biases[i] : 0 - r <= bp.biases[i][j] /\ bp.biases[i][j] <= r
        /\ \A c \in DOMAIN bp.weights[i] : 0 - r <= bp.weights[i][c] /\ bp.weights[i][c] <= r

\* every bias and weight of layer 0 is zero
InputLayerZero(bp) ==
    /\ \A j \in DOMAIN bp.biases[1] : bp.biases[1][j] = 0
    /\ \A c \in DOMAIN bp.weights[1] : bp.weights[1][c] = 0

\* the network after trainSGD is the one initWeights makes with range r
InitialisedWith(r) ==
    \E junk \in JunkVals :
        net = initWeightsIn(makeNet(net.type, Len(lastOp.layers), lastOp.layers, junk),
                            r, params.seed)

\* C30: when the caller gives an explicit positive range r (the last value
\* given; -1 when none was given), trainSGD initialises every weight and
\* bias of layers 1..L-1 within [-r, r] using that value r, whether r is an
\* integer or not; the heuristic 1/sqrt(previous layer size) is used only
\* when the range is -1; layer 0's biases and weights are set to zero.
C30_ExplicitRangeUsed ==
    lastOp.op = "trainSGD" =>
        /\ InitialisedWith(lastOp.given)
        /\ lastOp.given > 0 =>
              \A b \in 1..Len(Bodies(net)) : WithinRange(Bodies(net)[b], lastOp.given)
        /\ \A b \in 1..Len(Bodies(net)) : InputLayerZero(Bodies(net)[b])

\* the part that holds: a range that is a positive whole number is used as
\* given, the range -1 selects the heuristic, and layer 0 is set to zero
C30_WholeRangeUsed ==
    (lastOp.op = "trainSGD" /\ lastOp.given % One = 0) =>
        /\ InitialisedWith(lastOp.given)
        /\ lastOp.given > 0 =>
              \A b \in 1..Len(Bodies(net)) : WithinRange(Bodies(net)[b], lastOp.given)
        /\ \A b \in 1..Len(Bodies(net)) : InputLayerZero(Bodies(net)[b])

\* the range 0.5 has been given and the heuristic has been used in its place
C30_HalfBecomesHeuristic ==
    /\ lastOp.op = "trainSGD"
    /\ lastOp.given = Half
    /\ InitialisedWith(0 - One)
    /\ \E b \in 1..Len(Bodies(net)) : ~WithinRange(Bodies(net)[b], Half)

====
